---- MODULE Spec2Model ----
(***************************************************************************)
(* A model of ptytest's session/broadcast core:                            *)
(*   src/src/ptytest/session.py    BaseSession, TmuxSession, PtySession     *)
(*   src/src/ptytest/viz/viewer.py ScreenBroadcaster, TerminalViewer        *)
(*   src/src/ptytest/neovim.py     NeovimSession.cleanup                    *)
(*                                                                         *)
(* Several specifications share the module:                                *)
(*   Spec      the driver's calls on one session: send_keys, send_raw,     *)
(*             cleanup(), the with-block, and the child exiting by itself  *)
(*   SpecPoll  one verify_text_appears / wait_for_text call against a      *)
(*             screen that changes while the clock runs                    *)
(*   SpecBcast one ScreenBroadcaster: subscribe, unsubscribe, start,       *)
(*             shutdown and the polling thread                             *)
(*   SpecRestart    SpecBcast with a driver that may call start() again    *)
(*   SpecBcastLive  SpecBcast with weak fairness of the threads' steps     *)
(*   SpecSnap  the feeder, the polling thread and two caller threads       *)
(*             reading the screen and changing the subscriber list         *)
(*   SpecTwo   two sessions, each observed by its own broadcaster          *)
(*   SpecTwoLive    SpecTwo with weak fairness of each polling thread      *)
(*   SpecView  the TerminalViewer on a broadcaster: mount, key bindings,   *)
(*             unmount, and the polling thread calling into the UI thread  *)
(*   SpecTerm  cleanup() of a session of any kind, called from two         *)
(*             threads, against a child that may ignore a request to exit  *)
(*   SpecViz   one PtySession with or without a broadcaster, from          *)
(*             its constructor to its cleanup()                            *)
(*   SpecReent      SpecBcast with a callback that calls back into the     *)
(*             broadcaster: subscribe, unsubscribe or shutdown             *)
(*   SpecThreads    start() and shutdown() called repeatedly, and the      *)
(*             polling threads they leave behind                           *)
(*   SpecReplay     one callback subscribed before or after start()        *)
(*                                                                         *)
(* The process handle (ptydriver.PtyProcess, pexpect.spawn), the tmux CLI  *)
(* and the pyte screen are external collaborators.  A call into one of     *)
(* them either succeeds or raises; which of the two is an input.           *)
(***************************************************************************)
EXTENDS Integers, Sequences, FiniteSets, TLC

\* ------------------------------------------------------------------ bounds
MaxCleanups == 3        \* cleanup() calls made by the driver (explicit or scoped exit)
MaxSends    == 2        \* send_keys / send_raw calls made by the driver
MaxTimeout  == 3        \* the largest timeout tried, in clock units
MaxClock    == 5        \* the clock stops here, unless a sleeper waits for it
MaxSubs     == 2        \* the longest subscriber list
MaxFeeds    == 2        \* buffer changes made by the feeder
MaxNotes    == 3        \* notifications counted for the subscriber of a session's broadcaster
MaxThreads  == 3        \* polling threads created by start() calls

\* --------------------------------------------------------------- constants
PollInterval == 2       \* time.sleep(0.1): 100 ms, in clock units of 50 ms
NoneT == -1             \* timeout=None


\* --------------------------------------------------------------- the state
VARIABLES
    \* ---- the session (Spec)
    kind,            \* "pty" (PtySession) or "tmux" (TmuxSession)
    viz_server,      \* PtySession._viz_server: "none", or the broadcaster "running"/"shutdown"
    is_cleaned_up,   \* BaseSession._is_cleaned_up, the closed flag
    alive,           \* the process handle's is_alive() / isalive()
    tmux_exists,     \* the tmux session exists (tmux has-session)
    written,         \* the bytes that reached the process, in order
    writeCalls,      \* calls of the handle's write (send / send_raw) made so far
    pc,              \* where the driver thread is: "idle" or inside cleanup()
    caller,          \* who called the running cleanup(): "call" or "exit" (__exit__)
    scope,           \* the with-block: "none", "in", "left"
    bodyExc,         \* the with-block's body raised
    propagated,      \* what left the with-block: "none", "body", "cleanup"
    nCleanups,       \* cleanup() calls started
    nReturned,       \* cleanup() calls finished (returned or raised)
    cleanupRaised,   \* some cleanup() call raised
    termFault,       \* a termination / release call of a collaborator raised
    sendLog          \* the send_keys / send_raw calls made, in call order

svars == <<kind, viz_server, is_cleaned_up, alive, tmux_exists, written, writeCalls, pc,
           caller,
           scope, bodyExc, propagated, nCleanups, nReturned, cleanupRaised,
           termFault, sendLog>>

\* ---- one polling assertion (SpecPoll)
VARIABLES
    clock,           \* time.time(), in units of 50 ms
    content,         \* the rendered screen content get_content() returns
    timeout,         \* BaseSession.timeout, the session's default timeout
    mode,            \* the call under way: "verify" or "wait"
    v_text,          \* verify_text_appears: the argument text
    v_arg,           \* the argument timeout (NoneT when omitted)
    v_timeout,       \* the local timeout after line 108
    v_start,         \* the local start
    v_pc,            \* "check", "read", "sleep", "done"
    v_wake,          \* when time.sleep(0.1) may return at the earliest
    v_result,        \* "none", "true", "false", "raised"
    v_content,       \* the local content: what the poll's last read returned
    v_reads,         \* get_content() reads made by the poll
    v_sawText,       \* some read of the poll contained the text
    v_lastRead,      \* the clock at the poll's last read (-1: none yet)
    v_gaps,          \* the gaps seen between two consecutive reads
    v_onScreen,      \* the text was on screen at some moment within timeout of the call
    w_pc,            \* wait_for_text: "verify", "reread", "done"
    w_outcome,       \* "none", "returned", "timeout", "error"
    w_screen,        \* what the screen showed when the TimeoutError was raised
    w_msg            \* the TimeoutError's message

pvars == <<clock, content, timeout, mode, v_text, v_arg, v_timeout, v_start, v_pc,
           v_wake, v_result, v_content, v_reads, v_sawText, v_lastRead, v_gaps, v_onScreen,
           w_pc, w_outcome, w_screen, w_msg>>

\* ---- one broadcaster (SpecBcast)
VARIABLES
    s_lines,         \* session.screen.display: the rows of the screen, top to bottom
    s_cursor,        \* session.screen.cursor: <<x, y>>
    subscribers,     \* ScreenBroadcaster._subscribers, an ordered list of callbacks
    sub_lock,        \* _subscribers_lock: "free", or held by "poll" or by "driver"
    running,         \* _running
    last_content,    \* _last_content
    t_pc,            \* the polling thread: "none" (not started), "check" (asleep,
                     \* or at the loop test), "read", "compare", "lock", "notify",
                     \* "in_cb" (inside a subscriber callback), "cb_wait" (inside a
                     \* callback, waiting for the subscriber lock), "dead"
    t_lines,         \* its locals lines,
    t_cursor,        \* cursor_x, cursor_y,
    t_i,             \* and its place in `for callback in self._subscribers`
    d_pc,            \* the driver thread: "idle", "sub", "unsub", "join", "clear"
    d_cb,            \* the callback its subscribe / unsubscribe call was given
    shut,            \* shutdown() has been called
    shut_done,       \* shutdown() has returned
    feeds,           \* buffer changes made by the feeder
    \* what happened to the callback "cb" since it was last subscribed
    cb_notes,        \* notifications it received
    cb_K,            \* buffer states that occurred
    cb_base,         \* _last_content when it was subscribed
    cb_multi,        \* it was subscribed while already in the list
    cb_unsub,        \* unsubscribe(cb) has returned, and no subscribe(cb) was called since
    t_fresh,         \* the thread's last read is of the current buffer state
    settled          \* a whole poll pass has been made on the current buffer state

bvars == <<s_lines, s_cursor, subscribers, sub_lock, running, last_content, t_pc,
           t_lines, t_cursor, t_i, d_pc, d_cb, shut, feeds, cb_notes, cb_K, cb_base,
           cb_multi, cb_unsub, t_fresh, settled, shut_done>>

\* ---- threads calling into the broadcaster side by side (SpecSnap)
VARIABLES
    screen_lock,     \* session.screen_lock: "free", or the thread that holds it
    c_pc,            \* per calling thread: "idle"; in unsubscribe "u_check",
                     \* "u_remove"; in get_screen_state "gs_lines", "gs_x", "gs_y",
                     \* "gs_ret"
    c_lines,         \* the locals lines,
    c_x,             \* cursor_x
    c_y,             \* and cursor_y of its get_screen_state
    c_raised         \* one of the calls raised

cvars == <<screen_lock, c_pc, c_lines, c_x, c_y, c_raised>>

\* ---- two sessions, each with its own broadcaster (SpecTwo)
VARIABLES
    x_screen,        \* per session: <<lines, cursor>> of its screen
    x_feeds,         \* per session: buffer changes made by its feeder
    x_last,          \* per broadcaster: _last_content
    x_pc,            \* per broadcaster, its polling thread: "read", "compare",
                     \* "notify"
    x_snap,          \* per broadcaster: the locals <<lines, cursor>> of the pass
    x_got,           \* per broadcaster: the snapshots its subscriber has received
    x_sent,          \* per broadcaster: the snapshot of its last notification
    x_hist           \* per session: the buffer states its screen has shown

xvars == <<x_screen, x_feeds, x_last, x_pc, x_snap, x_got, x_sent, x_hist>>

\* ---- a PtySession and the broadcaster on it, from construction to cleanup (SpecViz)
VARIABLES
    z_mode,          \* "viz": PtySession(enable_viz=True); "plain": enable_viz=False;
                     \* "separate": enable_viz=False and ScreenBroadcaster(session).start()
    z_pc,            \* where the driver thread is, in __init__, cleanup() or shutdown()
    z_server,        \* PtySession._viz_server: "none" or "obj"
    z_attrs,         \* the session has its attributes screen and screen_lock
    z_alive,         \* the process is alive and its output is fed to the screen
    z_screen,        \* the lines of the screen
    z_feeds,         \* buffer changes made so far
    z_running,       \* ScreenBroadcaster._running
    z_tpc,           \* the polling thread: "none", "check", "read", "compare",
                     \* "notify", "dead"
    z_tlines,        \* the local lines of the pass
    z_last,          \* _last_content
    z_subs,          \* _subscribers
    z_notes,         \* notifications the subscriber has received
    z_changed,       \* the screen has changed since the subscription
    z_hist,          \* the lines the screen showed until cleanup() ended
    z_after,         \* the lines delivered after cleanup() ended
    z_raised         \* cleanup() raised

zvars == <<z_mode, z_pc, z_server, z_attrs, z_alive, z_screen, z_feeds, z_running, z_tpc,
           z_tlines, z_last, z_subs, z_notes, z_changed, z_hist, z_after, z_raised>>

\* ---- a TerminalViewer on a running broadcaster (SpecView)
VARIABLES
    vw_pc,            \* the UI thread of the viewer: "new", inside on_mount ("m_sub",
                     \* "m_read", "m_draw"), in its event loop ("loop"), inside
                     \* action_refresh ("r_draw"), inside on_unmount ("u_unsub"), "closed"
    vw_display,       \* TerminalViewer._terminal_display is set
    vw_subs,          \* the broadcaster's _subscribers
    vw_lock,          \* _subscribers_lock: "free", "bg" (polling thread), "ui"
    vw_screen,        \* the lines of the screen
    vw_feeds,         \* buffer changes made so far
    vw_last,          \* _last_content
    vw_tpc,           \* the polling thread: "read", "compare", "lock", "notify",
                     \* "wait" (inside call_from_thread), "unlock"
    vw_tlines,        \* the local lines of the pass
    vw_req,           \* the call handed to the UI thread: "none", "pending", "done"
    vw_lines,         \* the lines the UI thread has read for a direct update
    vw_drawn,         \* what the display shows
    vw_by             \* the threads that have executed update_screen

vwvars == <<vw_pc, vw_display, vw_subs, vw_lock, vw_screen, vw_feeds, vw_last, vw_tpc, vw_tlines,
           vw_req, vw_lines, vw_drawn, vw_by>>

\* ---- cleanup() and the termination of the child (SpecTerm)
VARIABLES
    q_kind,          \* "pty" (PtySession), "tmux" (TmuxSession), "nvim" (NeovimSession)
    q_stubborn,      \* the child ignores a graceful request to exit
    q_alive,         \* the child is alive
    q_closed,        \* _is_cleaned_up
    q_pc,            \* per calling thread: "idle", "n_quit", "check", "set", "first",
                     \* "force"
    q_calls,         \* cleanup() calls started
    q_asked,         \* a graceful request reached the child
    q_fault,         \* a call of a collaborator failed during cleanup()
    q_raised         \* some cleanup() call raised

qvars == <<q_kind, q_stubborn, q_alive, q_closed, q_pc, q_calls, q_asked, q_fault, q_raised>>

\* ---- start(), shutdown() and the threads they leave behind (SpecThreads)
VARIABLES
    th_running,      \* _running
    th_pc,           \* per thread created by start(): "none" (not created), "check"
                     \* (asleep, or at the loop test), "read", "pass" (inside a
                     \* notification pass, holding the subscriber lock), "dead"
    th_thread,       \* _thread: the thread start() created last (0: None)
    th_lock,         \* _subscribers_lock: 0 (free), a thread, or "driver"
    th_dpc,          \* the driver: "idle", or in shutdown() "join", "clear"
    th_n             \* threads created so far

thvars == <<th_running, th_pc, th_thread, th_lock, th_dpc, th_n>>

\* ---- a callback subscribed before or after start() (SpecReplay)
VARIABLES
    n_screen,        \* the lines of the screen
    n_feeds,         \* buffer changes made so far
    n_last,          \* _last_content
    n_running,       \* _running
    n_tpc,           \* the polling thread: "none", "check", "read", "compare",
                     \* "notify" (lines recorded, subscribers not yet called), "dead"
    n_tlines,        \* the local lines of the pass
    n_subs,          \* _subscribers
    n_notes,         \* notifications the callback has received
    n_first,         \* the lines of the first of them
    n_passed,        \* the thread has finished a pass
    n_early,         \* the callback was subscribed before start()
    n_eq,            \* ... while the screen's lines were those of _last_content
    n_quiet,         \* ... and no pass had recorded its lines without notifying yet
    n_differed       \* since then the screen's lines have differed from _last_content

nvars == <<n_screen, n_feeds, n_last, n_running, n_tpc, n_tlines, n_subs, n_notes, n_first,
           n_passed, n_early, n_eq, n_quiet, n_differed>>

vars == <<svars, pvars, bvars, cvars, xvars, zvars, vwvars, qvars, thvars, nvars>>

\* What an action of one part leaves alone.
NotSession == <<pvars, bvars, cvars, xvars, zvars, vwvars, qvars, thvars, nvars>>
NotPoll    == <<svars, bvars, cvars, xvars, zvars, vwvars, qvars, thvars, nvars>>
NotBcast   == <<svars, pvars, cvars, xvars, zvars, vwvars, qvars, thvars, nvars>>
NotCaller  == <<svars, pvars, xvars, zvars, vwvars, qvars, thvars, nvars>>
NotTwo     == <<svars, pvars, bvars, cvars, zvars, vwvars, qvars, thvars, nvars>>
NotViz     == <<svars, pvars, bvars, cvars, xvars, vwvars, qvars, thvars, nvars>>
NotView    == <<svars, pvars, bvars, cvars, xvars, zvars, qvars, thvars, nvars>>
NotTerm    == <<svars, pvars, bvars, cvars, xvars, zvars, vwvars, thvars, nvars>>
NotThreads == <<svars, pvars, bvars, cvars, xvars, zvars, vwvars, qvars, nvars>>
NotReplay  == <<svars, pvars, bvars, cvars, xvars, zvars, vwvars, qvars, thvars>>

\* ------------------------------------------------------------------- keys
\* Keys.ENTER, the line terminator send_keys appends ("\r" in TmuxSession.send_keys;
\* press_enter in PtySession.send_keys).
ENTER == "CR"

\* What the driver types (keys) and the raw sequences it sends.
KeyTexts == { <<"x">>, <<"y", "z">> }
RawSeqs  == { <<"ESC">> }

NotRunning == "Process not running"

\* ============================================================ the session

SessionInit ==
    /\ kind \in {"pty", "tmux"}
    /\ viz_server \in (IF kind = "pty" THEN {"none", "running"} ELSE {"none"})
    /\ is_cleaned_up = FALSE
    /\ alive = TRUE
    /\ tmux_exists = (kind = "tmux")
    /\ written = <<>>
    /\ writeCalls = 0
    /\ pc = "idle"
    /\ caller = "call"
    /\ scope = "none"
    /\ bodyExc = FALSE
    /\ propagated = "none"
    /\ nCleanups = 0
    /\ nReturned = 0
    /\ cleanupRaised = FALSE
    /\ termFault = FALSE
    /\ sendLog = <<>>

\* A send_keys that presses Enter whatever literal says.
KeysPayloadAlwaysEnter(keys, literal) == keys \o <<ENTER>>

\* The bytes one call hands to the process.
KeysPayload(keys, literal) == IF literal THEN keys ELSE keys \o <<ENTER>>

\* A send without the liveness check of PtySession: the write is attempted anyway.
SendUnchecked(op, arg, literal, payload) ==
    /\ pc = "idle"
    /\ Len(sendLog) < MaxSends
    /\ \E res \in {"ok", "OSError"} :
         /\ alive => res = "ok"
         /\ writeCalls' = writeCalls + 1
         /\ written' = IF alive /\ res = "ok" THEN written \o payload ELSE written
         /\ sendLog' = Append(sendLog, [op |-> op, arg |-> arg, literal |-> literal,
                                         live |-> alive, result |-> res])
    /\ UNCHANGED <<kind, viz_server, is_cleaned_up, alive, tmux_exists, pc, caller,
                   scope, bodyExc, propagated, nCleanups, nReturned, cleanupRaised,
                   termFault>>
    /\ UNCHANGED NotSession

\* PtySession.send_keys / send_raw: the liveness check, then the write.
\* TmuxSession.send_keys / send_raw: no check; pexpect writes to the pty, and a write
\* to a dead child reaches nothing (it returns or raises OSError).
Send(op, arg, literal, payload) ==
    /\ pc = "idle"
    /\ Len(sendLog) < MaxSends
    /\ \E res \in {"ok", "OSError", NotRunning} :
         /\ IF kind = "pty"
              THEN res = (IF alive THEN "ok" ELSE NotRunning)
              ELSE IF alive THEN res = "ok" ELSE res \in {"ok", "OSError"}
         /\ writeCalls' = IF res = NotRunning THEN writeCalls ELSE writeCalls + 1
         /\ written' = IF alive /\ res = "ok" THEN written \o payload ELSE written
         /\ sendLog' = Append(sendLog, [op |-> op, arg |-> arg, literal |-> literal,
                                         live |-> alive, result |-> res])
    /\ UNCHANGED <<kind, viz_server, is_cleaned_up, alive, tmux_exists, pc, caller,
                   scope, bodyExc, propagated, nCleanups, nReturned, cleanupRaised,
                   termFault>>
    /\ UNCHANGED NotSession

SendKeys ==
    \E keys \in KeyTexts, literal \in BOOLEAN :
        Send("send_keys", keys, literal, KeysPayload(keys, literal))

SendRaw ==
    \E sequence \in RawSeqs : Send("send_raw", sequence, TRUE, sequence)

\* The child exits on its own (the program quits, the tmux client detaches).
ChildExits ==
    /\ alive
    /\ alive' = FALSE
    /\ UNCHANGED <<kind, viz_server, is_cleaned_up, tmux_exists, written, writeCalls, pc, caller,
                   scope, bodyExc, propagated, nCleanups, nReturned, cleanupRaised,
                   termFault, sendLog>>
    /\ UNCHANGED NotSession

\* ---- the with-block
\* BaseSession.__enter__
Enter ==
    /\ pc = "idle"
    /\ scope = "none"
    /\ scope' = "in"
    /\ UNCHANGED <<kind, viz_server, is_cleaned_up, alive, tmux_exists, written, writeCalls, pc,
                   caller, bodyExc, propagated, nCleanups, nReturned, cleanupRaised,
                   termFault, sendLog>>
    /\ UNCHANGED NotSession

\* BaseSession.__exit__: the body ended, normally or by an exception; cleanup() is called.
Exit ==
    /\ pc = "idle"
    /\ scope = "in"
    /\ nCleanups < MaxCleanups
    /\ \E exc \in BOOLEAN : bodyExc' = exc
    /\ caller' = "exit"
    /\ pc' = "c_check"
    /\ nCleanups' = nCleanups + 1
    /\ UNCHANGED <<kind, viz_server, is_cleaned_up, alive, tmux_exists, written, writeCalls, scope,
                   propagated, nReturned, cleanupRaised, termFault, sendLog>>
    /\ UNCHANGED NotSession

\* ---- cleanup()
\* The driver calls cleanup() itself.
CleanupCall ==
    /\ pc = "idle"
    /\ nCleanups < MaxCleanups
    /\ caller' = "call"
    /\ pc' = "c_check"
    /\ nCleanups' = nCleanups + 1
    /\ UNCHANGED <<kind, viz_server, is_cleaned_up, alive, tmux_exists, written, writeCalls, scope,
                   bodyExc, propagated, nReturned, cleanupRaised, termFault, sendLog>>
    /\ UNCHANGED NotSession

\* cleanup() ends: it returns, or (raised) an exception leaves it.  When __exit__
\* called it, __exit__ returns False, so the body's exception propagates, unless
\* cleanup() itself raised: then that exception leaves the with-block.
Return(raised) ==
    /\ pc' = "idle"
    /\ nReturned' = nReturned + 1
    /\ cleanupRaised' = (cleanupRaised \/ raised)
    /\ IF caller = "exit"
         THEN /\ scope' = "left"
              /\ propagated' = IF raised THEN "cleanup"
                               ELSE IF bodyExc THEN "body" ELSE "none"
         ELSE UNCHANGED <<scope, propagated>>

\* `if self._is_cleaned_up: return`
CleanupCheck ==
    /\ pc = "c_check"
    /\ IF is_cleaned_up
         THEN Return(FALSE)
         ELSE /\ pc' = "c_set"
              /\ UNCHANGED <<scope, propagated, nReturned, cleanupRaised>>
    /\ UNCHANGED <<kind, viz_server, is_cleaned_up, alive, tmux_exists, written, writeCalls, caller,
                   bodyExc, nCleanups, termFault, sendLog>>
    /\ UNCHANGED NotSession

\* `self._is_cleaned_up = True`
CleanupSetFlag ==
    /\ pc = "c_set"
    /\ is_cleaned_up' = TRUE
    /\ pc' = "c_first"
    /\ UNCHANGED <<kind, viz_server, alive, tmux_exists, written, writeCalls, caller, scope, bodyExc,
                   propagated, nCleanups, nReturned, cleanupRaised, termFault, sendLog>>
    /\ UNCHANGED NotSession

\* PtySession.cleanup: `if self._viz_server: try: shutdown() except Exception: pass`
PtyShutdownViz ==
    /\ pc = "c_first"
    /\ kind = "pty"
    /\ IF viz_server = "none"
         THEN UNCHANGED <<viz_server, termFault>>
         ELSE \E ok \in BOOLEAN :
                 /\ viz_server' = IF ok THEN "shutdown" ELSE viz_server
                 /\ termFault' = (termFault \/ ~ok)
    /\ pc' = "c_term"
    /\ UNCHANGED <<kind, is_cleaned_up, alive, tmux_exists, written, writeCalls, caller, scope,
                   bodyExc, propagated, nCleanups, nReturned, cleanupRaised, sendLog>>
    /\ UNCHANGED NotSession

\* PtySession.cleanup: `if hasattr(self, '_pty_process'): self._pty_process.cleanup()`
\* with nothing around it: what the process handle raises leaves cleanup().
PtyProcessCleanup ==
    /\ pc = "c_term"
    /\ kind = "pty"
    /\ \E ok \in BOOLEAN :
         /\ alive' \in (IF ok THEN {FALSE} ELSE {alive, FALSE})
         /\ termFault' = (termFault \/ ~ok)
         /\ Return(~ok)
    /\ UNCHANGED <<kind, viz_server, is_cleaned_up, tmux_exists, written, writeCalls, caller,
                   bodyExc, nCleanups, sendLog>>
    /\ UNCHANGED NotSession

\* TmuxSession.cleanup: `try: subprocess.run(["tmux", "kill-session", ...]) except: pass`
TmuxKillSession ==
    /\ pc = "c_first"
    /\ kind = "tmux"
    /\ \E ok \in BOOLEAN :
         /\ tmux_exists' = IF ok THEN FALSE ELSE tmux_exists
         /\ termFault' = (termFault \/ ~ok)
    /\ pc' = "c_term"
    /\ UNCHANGED <<kind, viz_server, is_cleaned_up, alive, written, writeCalls, caller, scope,
                   bodyExc, propagated, nCleanups, nReturned, cleanupRaised, sendLog>>
    /\ UNCHANGED NotSession

\* TmuxSession.cleanup: `try: if isalive(): terminate(force=True); close() except: pass`
TmuxCloseProcess ==
    /\ pc = "c_term"
    /\ kind = "tmux"
    /\ \E ok \in BOOLEAN :
         /\ alive' \in (IF ok THEN {FALSE} ELSE {alive, FALSE})
         /\ termFault' = (termFault \/ ~ok)
    /\ Return(FALSE)
    /\ UNCHANGED <<kind, viz_server, is_cleaned_up, tmux_exists, written, writeCalls, caller,
                   bodyExc, nCleanups, sendLog>>
    /\ UNCHANGED NotSession

SessionNext ==
    \/ SendKeys
    \/ SendRaw
    \/ ChildExits
    \/ Enter
    \/ Exit
    \/ CleanupCall
    \/ CleanupCheck
    \/ CleanupSetFlag
    \/ PtyShutdownViz
    \/ PtyProcessCleanup
    \/ TmuxKillSession
    \/ TmuxCloseProcess

\* ================================================= the polling assertions

\* `text in content`
IsSubstring(s, t) ==
    \E i \in 0..(Len(t) - Len(s)) : SubSeq(t, i + 1, i + Len(s)) = s

\* What the screen may show, and the texts looked for.
Contents == { <<>>, <<"a">>, <<"b">>, <<"a", "b">>, <<"b", "a">> }
Texts    == { <<"a">>, <<"a", "b">> }

\* str() of a number, digit by digit.
Digits == <<"0", "1", "2", "3", "4", "5", "6", "7", "8", "9">>
RECURSIVE ToStr(_)
ToStr(n) == IF n < 10 THEN <<Digits[n + 1]>>
                      ELSE ToStr(n \div 10) \o <<Digits[(n % 10) + 1]>>
TimeoutStr(t) == IF t = NoneT THEN <<"None">> ELSE ToStr(t)

\* A message that leaves the screen content out.
TimeoutMessageNoContent(text, t, c) ==
    <<"Text '">> \o text \o <<"' did not appear within ">> \o TimeoutStr(t) \o <<"s.">>

\* f"Text '{text}' did not appear within {timeout}s.\nCurrent content:\n{content}"
TimeoutMessage(text, t, c) ==
    <<"Text '">> \o text \o <<"' did not appear within ">> \o TimeoutStr(t)
        \o <<"s.\nCurrent content:\n">> \o c

\* `timeout = timeout if timeout is not None else self.timeout`
EffectiveTimeout(arg, default) == IF arg # NoneT THEN arg ELSE default

PollInit ==
    /\ clock = 0
    /\ content \in Contents
    /\ mode \in {"verify", "wait"}
    /\ v_text \in Texts
    /\ v_arg \in {NoneT} \cup 0..MaxTimeout
    /\ timeout \in (IF v_arg = NoneT THEN 1..MaxTimeout ELSE {MaxTimeout})
    /\ v_timeout = EffectiveTimeout(v_arg, timeout)
    /\ v_start = clock
    /\ v_pc = "check"
    /\ v_wake = 0
    /\ v_result = "none"
    /\ v_content = <<>>
    /\ v_reads = 0
    /\ v_sawText = FALSE
    /\ v_lastRead = -1
    /\ v_gaps = {}
    /\ v_onScreen = IsSubstring(v_text, content)
    /\ w_pc = "verify"
    /\ w_outcome = "none"
    /\ w_screen = <<>>
    /\ w_msg = <<>>

\* No poll is under way (Spec).
PollIdle ==
    /\ clock = 0
    /\ content = <<>>
    /\ timeout = 1
    /\ mode = "verify"
    /\ v_text = <<>>
    /\ v_arg = NoneT
    /\ v_timeout = 1
    /\ v_start = 0
    /\ v_pc = "done"
    /\ v_wake = 0
    /\ v_result = "none"
    /\ v_content = <<>>
    /\ v_reads = 0
    /\ v_sawText = FALSE
    /\ v_lastRead = -1
    /\ v_gaps = {}
    /\ v_onScreen = FALSE
    /\ w_pc = "done"
    /\ w_outcome = "none"
    /\ w_screen = <<>>
    /\ w_msg = <<>>

\* Time passes.  It always does for a sleeping thread.
Tick ==
    /\ clock < MaxClock \/ (v_pc = "sleep" /\ clock < v_wake)
    /\ clock' = clock + 1
    /\ UNCHANGED <<content, timeout, mode, v_text, v_arg, v_timeout, v_start, v_pc,
                   v_wake, v_result, v_content, v_reads, v_sawText, v_lastRead, v_gaps,
                   v_onScreen, w_pc, w_outcome, w_screen, w_msg>>
    /\ UNCHANGED NotPoll

\* The process prints: the feeder changes the screen.
Feed ==
    /\ \E c \in Contents \ {content} :
         /\ content' = c
         /\ v_onScreen' = (v_onScreen \/ (/\ w_pc # "done"
                                          /\ v_pc # "done"
                                          /\ clock - v_start <= v_timeout
                                          /\ IsSubstring(v_text, c)))
    /\ UNCHANGED <<clock, timeout, mode, v_text, v_arg, v_timeout, v_start, v_pc,
                   v_wake, v_result, v_content, v_reads, v_sawText, v_lastRead, v_gaps,
                   w_pc, w_outcome, w_screen, w_msg>>
    /\ UNCHANGED NotPoll

\* A loop test that lets the deadline itself in: `<=` for `<`.
VerifyCheckInclusive ==
    /\ v_pc = "check"
    /\ IF clock - v_start <= v_timeout
         THEN /\ v_pc' = "read"
              /\ UNCHANGED v_result
         ELSE /\ v_pc' = "done"
              /\ v_result' = "false"
    /\ UNCHANGED <<clock, content, timeout, mode, v_text, v_arg, v_timeout, v_start,
                   v_wake, v_content, v_reads, v_sawText, v_lastRead, v_gaps, v_onScreen,
                   w_pc, w_outcome, w_screen, w_msg>>
    /\ UNCHANGED NotPoll

\* `while time.time() - start < timeout:` and, when it fails, `return False`
VerifyCheck ==
    /\ v_pc = "check"
    /\ IF clock - v_start < v_timeout
         THEN /\ v_pc' = "read"
              /\ UNCHANGED v_result
         ELSE /\ v_pc' = "done"
              /\ v_result' = "false"
    /\ UNCHANGED <<clock, content, timeout, mode, v_text, v_arg, v_timeout, v_start,
                   v_wake, v_content, v_reads, v_sawText, v_lastRead, v_gaps, v_onScreen,
                   w_pc, w_outcome, w_screen, w_msg>>
    /\ UNCHANGED NotPoll

\* A poll that goes on sleeping and reading after a read that contains the text.
VerifyReadGoesOn ==
    /\ v_pc = "read"
    /\ \E ok \in BOOLEAN :
         IF ~ok
           THEN /\ v_pc' = "done"
                /\ v_result' = "raised"
                /\ UNCHANGED <<v_wake, v_content, v_reads, v_sawText, v_lastRead,
                               v_gaps>>
           ELSE /\ v_reads' = v_reads + 1
                /\ v_content' = content
                /\ v_lastRead' = clock
                /\ v_gaps' = IF v_lastRead < 0 THEN v_gaps
                                              ELSE v_gaps \cup {clock - v_lastRead}
                /\ v_sawText' = (v_sawText \/ IsSubstring(v_text, content))
                /\ v_pc' = "sleep"
                /\ v_wake' = clock + PollInterval
                /\ UNCHANGED v_result
    /\ UNCHANGED <<clock, content, timeout, mode, v_text, v_arg, v_timeout, v_start,
                   v_onScreen, w_pc, w_outcome, w_screen, w_msg>>
    /\ UNCHANGED NotPoll

\* `content = self.get_content(...)`, `if text in content: return True`,
\* `time.sleep(0.1)`.  Nothing catches what get_content() raises.
VerifyRead ==
    /\ v_pc = "read"
    /\ \E ok \in BOOLEAN :
         IF ~ok
           THEN /\ v_pc' = "done"
                /\ v_result' = "raised"
                /\ UNCHANGED <<v_wake, v_content, v_reads, v_sawText, v_lastRead,
                               v_gaps>>
           ELSE /\ v_reads' = v_reads + 1
                /\ v_content' = content
                /\ v_lastRead' = clock
                /\ v_gaps' = IF v_lastRead < 0 THEN v_gaps
                                              ELSE v_gaps \cup {clock - v_lastRead}
                /\ v_sawText' = (v_sawText \/ IsSubstring(v_text, content))
                /\ IF IsSubstring(v_text, content)
                     THEN /\ v_pc' = "done"
                          /\ v_result' = "true"
                          /\ UNCHANGED v_wake
                     ELSE /\ v_pc' = "sleep"
                          /\ v_wake' = clock + PollInterval
                          /\ UNCHANGED v_result
    /\ UNCHANGED <<clock, content, timeout, mode, v_text, v_arg, v_timeout, v_start,
                   v_onScreen, w_pc, w_outcome, w_screen, w_msg>>
    /\ UNCHANGED NotPoll

\* time.sleep(0.1) returns, no earlier than 0.1 s after it was called.
VerifyWake ==
    /\ v_pc = "sleep"
    /\ clock >= v_wake
    /\ v_pc' = "check"
    /\ UNCHANGED <<clock, content, timeout, mode, v_text, v_arg, v_timeout, v_start,
                   v_wake, v_result, v_content, v_reads, v_sawText, v_lastRead, v_gaps,
                   v_onScreen, w_pc, w_outcome, w_screen, w_msg>>
    /\ UNCHANGED NotPoll

\* wait_for_text: `if not self.verify_text_appears(...)`: the poll found the text
\* (return), raised (the error leaves wait_for_text) or timed out.
WaitVerified ==
    /\ mode = "wait"
    /\ w_pc = "verify"
    /\ v_pc = "done"
    /\ IF v_result = "false"
         THEN /\ w_pc' = "reread"
              /\ UNCHANGED w_outcome
         ELSE /\ w_pc' = "done"
              /\ w_outcome' = IF v_result = "true" THEN "returned" ELSE "error"
    /\ UNCHANGED <<clock, content, timeout, mode, v_text, v_arg, v_timeout, v_start,
                   v_pc, v_wake, v_result, v_content, v_reads, v_sawText, v_lastRead, v_gaps,
                   v_onScreen, w_screen, w_msg>>
    /\ UNCHANGED NotPoll

\* wait_for_text: `content = self.get_content(...)`, `raise TimeoutError(...)`
WaitRaise ==
    /\ w_pc = "reread"
    /\ \E ok \in BOOLEAN :
         IF ok
           THEN /\ w_screen' = content
                /\ w_msg' = TimeoutMessage(v_text, v_arg, content)
                /\ w_outcome' = "timeout"
           ELSE /\ w_outcome' = "error"
                /\ UNCHANGED <<w_screen, w_msg>>
    /\ w_pc' = "done"
    /\ UNCHANGED <<clock, content, timeout, mode, v_text, v_arg, v_timeout, v_start,
                   v_pc, v_wake, v_result, v_content, v_reads, v_sawText, v_lastRead, v_gaps,
                   v_onScreen>>
    /\ UNCHANGED NotPoll

PollNext ==
    \/ Tick
    \/ Feed
    \/ VerifyCheck
    \/ VerifyRead
    \/ VerifyWake
    \/ WaitVerified
    \/ WaitRaise

\* ========================================================= the broadcaster

Callbacks == {"cb", "other"}

\* The callbacks that raise on every invocation.
Raisers == {"other"}

\* The screens the process can draw: one row, and a cursor in one of two columns.
ScreenLines   == { <<"a">>, <<"b">> }
ScreenCursors == { <<0, 0>>, <<1, 0>> }

\* list.remove(x): the first occurrence goes.
RECURSIVE RemoveFirst(_, _)
RemoveFirst(list, x) ==
    IF list = <<>> THEN <<>>
    ELSE IF Head(list) = x THEN Tail(list)
    ELSE <<Head(list)>> \o RemoveFirst(Tail(list), x)

InList(list, x) == \E i \in 1..Len(list) : list[i] = x

\* ScreenBroadcaster.__init__, on a session whose screen shows its first state.
BcastInit ==
    /\ s_lines = <<"a">>
    /\ s_cursor = <<0, 0>>
    /\ subscribers = <<>>
    /\ sub_lock = "free"
    /\ running = FALSE
    /\ last_content = <<>>
    /\ t_pc = "none"
    /\ t_lines = <<>>
    /\ t_cursor = <<0, 0>>
    /\ t_i = 0
    /\ d_pc = "idle"
    /\ d_cb = "cb"
    /\ shut = FALSE
    /\ shut_done = FALSE
    /\ feeds = 0
    /\ cb_notes = 0
    /\ cb_K = 0
    /\ cb_base = <<>>
    /\ cb_multi = FALSE
    /\ cb_unsub = FALSE
    /\ t_fresh = FALSE
    /\ settled = FALSE

\* The feeder draws: under the screen lock the buffer goes to another state (other
\* lines, another cursor, or both).
FeedScreen ==
    /\ feeds < MaxFeeds
    /\ screen_lock = "free"
    /\ \E l \in ScreenLines, c \in ScreenCursors :
         /\ <<l, c>> # <<s_lines, s_cursor>>
         /\ s_lines' = l
         /\ s_cursor' = c
    /\ feeds' = feeds + 1
    /\ cb_K' = IF InList(subscribers, "cb") THEN cb_K + 1 ELSE cb_K
    /\ t_fresh' = FALSE
    /\ settled' = FALSE
    /\ UNCHANGED <<subscribers, sub_lock, running, last_content, t_pc, t_lines,
                   t_cursor, t_i, d_pc, d_cb, shut, cb_notes, cb_base, cb_multi,
                   cb_unsub>>
    /\ UNCHANGED shut_done
    /\ UNCHANGED NotBcast

\* ---- the driver's calls
\* subscribe(callback) is called ...
SubscribeCall ==
    /\ d_pc = "idle"
    /\ Len(subscribers) < MaxSubs
    /\ \E c \in Callbacks :
         /\ d_cb' = c
         /\ cb_unsub' = IF c = "cb" THEN FALSE ELSE cb_unsub
    /\ d_pc' = "sub"
    /\ UNCHANGED <<s_lines, s_cursor, subscribers, sub_lock, running, last_content,
                   t_pc, t_lines, t_cursor, t_i, shut, feeds, cb_notes, cb_K, cb_base,
                   cb_multi, t_fresh, settled>>
    /\ UNCHANGED shut_done
    /\ UNCHANGED NotBcast

\* ... and, once it has the lock, `self._subscribers.append(callback)`.
Subscribe ==
    /\ d_pc = "sub"
    /\ sub_lock = "free"
    /\ subscribers' = Append(subscribers, d_cb)
    /\ d_pc' = "idle"
    /\ IF d_cb = "cb"
         THEN IF InList(subscribers, "cb")
                THEN /\ cb_multi' = TRUE
                     /\ UNCHANGED <<cb_notes, cb_K, cb_base>>
                ELSE /\ cb_multi' = FALSE
                     /\ cb_notes' = 0
                     /\ cb_K' = 0
                     /\ cb_base' = last_content
         ELSE UNCHANGED <<cb_notes, cb_K, cb_base, cb_multi>>
    /\ UNCHANGED <<s_lines, s_cursor, sub_lock, running, last_content, t_pc, t_lines,
                   t_cursor, t_i, d_cb, shut, feeds, cb_unsub, 
                   t_fresh, settled>>
    /\ UNCHANGED shut_done
    /\ UNCHANGED NotBcast

\* unsubscribe(callback) is called ...
UnsubscribeCall ==
    /\ d_pc = "idle"
    /\ \E c \in Callbacks : d_cb' = c
    /\ d_pc' = "unsub"
    /\ UNCHANGED <<s_lines, s_cursor, subscribers, sub_lock, running, last_content,
                   t_pc, t_lines, t_cursor, t_i, shut, feeds, cb_notes, cb_K, cb_base,
                   cb_multi, cb_unsub, t_fresh, settled>>
    /\ UNCHANGED shut_done
    /\ UNCHANGED NotBcast

\* ... and, once it has the lock,
\* `if callback in self._subscribers: self._subscribers.remove(callback)`.
Unsubscribe ==
    /\ d_pc = "unsub"
    /\ sub_lock = "free"
    /\ subscribers' = IF InList(subscribers, d_cb) THEN RemoveFirst(subscribers, d_cb)
                                                   ELSE subscribers
    /\ d_pc' = "idle"
    /\ cb_unsub' = IF d_cb = "cb" THEN TRUE ELSE cb_unsub
    /\ UNCHANGED <<s_lines, s_cursor, sub_lock, running, last_content, t_pc, t_lines,
                   t_cursor, t_i, d_cb, shut, feeds, cb_notes, cb_K, cb_base, cb_multi,
                   t_fresh, settled>>
    /\ UNCHANGED shut_done
    /\ UNCHANGED NotBcast

\* start(): `if self._running: return`, else the flag is set and the thread started.
\* The driver follows the lifecycle of the broadcaster: it does not call start()
\* once it has called shutdown().
Start ==
    /\ d_pc = "idle"
    /\ ~shut
    /\ IF running
         THEN UNCHANGED <<running, t_pc>>
         ELSE /\ running' = TRUE
              /\ t_pc' = "check"
    /\ UNCHANGED <<s_lines, s_cursor, subscribers, sub_lock, last_content, t_lines,
                   t_cursor, t_i, d_pc, d_cb, shut, feeds, cb_notes, cb_K, cb_base,
                   cb_multi, cb_unsub, t_fresh, settled>>
    /\ UNCHANGED shut_done
    /\ UNCHANGED NotBcast

\* start() called by a driver that does not follow the lifecycle: after shutdown(),
\* once the former thread has ended.  The code is that of Start: nothing forbids
\* the call.
StartAgain ==
    /\ d_pc = "idle"
    /\ shut
    /\ t_pc \in {"none", "dead"}
    /\ IF running
         THEN UNCHANGED <<running, t_pc>>
         ELSE /\ running' = TRUE
              /\ t_pc' = "check"
    /\ UNCHANGED <<s_lines, s_cursor, subscribers, sub_lock, last_content, t_lines,
                   t_cursor, t_i, d_pc, d_cb, shut, feeds, cb_notes, cb_K, cb_base,
                   cb_multi, cb_unsub, t_fresh, settled>>
    /\ UNCHANGED shut_done
    /\ UNCHANGED NotBcast

\* shutdown(): `self._running = False`,
ShutdownCall ==
    /\ d_pc = "idle"
    /\ running' = FALSE
    /\ shut' = TRUE
    /\ d_pc' = "join"
    /\ UNCHANGED <<s_lines, s_cursor, subscribers, sub_lock, last_content, t_pc,
                   t_lines, t_cursor, t_i, d_cb, feeds, cb_notes, cb_K, cb_base,
                   cb_multi, cb_unsub, t_fresh, settled>>
    /\ UNCHANGED shut_done
    /\ UNCHANGED NotBcast

\* `if self._thread and self._thread.is_alive(): self._thread.join(timeout=1.0)`:
\* there is no live thread, or the thread ends within the second, or the second is
\* over.  A thread that is not inside a notification pass reaches its loop test
\* within update_interval = 0.1 s, so the join times out only on a thread that is
\* kept in a pass by its callbacks.
ShutdownJoin ==
    /\ d_pc = "join"
    /\ t_pc \in {"none", "dead", "notify", "in_cb", "cb_wait"}
    /\ d_pc' = "clear"
    /\ UNCHANGED <<s_lines, s_cursor, subscribers, sub_lock, running, last_content,
                   t_pc, t_lines, t_cursor, t_i, d_cb, shut, feeds, cb_notes, cb_K,
                   cb_base, cb_multi, cb_unsub, t_fresh, settled>>
    /\ UNCHANGED shut_done
    /\ UNCHANGED NotBcast

\* A shutdown() that leaves the subscribers where they are.
ShutdownClearKeeps ==
    /\ d_pc = "clear"
    /\ sub_lock = "free"
    /\ d_pc' = "idle"
    /\ shut_done' = TRUE
    /\ UNCHANGED <<s_lines, s_cursor, subscribers, sub_lock, running, last_content,
                   t_pc, t_lines, t_cursor, t_i, d_cb, shut, feeds, cb_notes, cb_K,
                   cb_base, cb_multi, cb_unsub, t_fresh, settled>>
    /\ UNCHANGED NotBcast

\* `with self._subscribers_lock: self._subscribers.clear()`.
ShutdownClear ==
    /\ d_pc = "clear"
    /\ sub_lock = "free"
    /\ subscribers' = <<>>
    /\ d_pc' = "idle"
    /\ UNCHANGED <<s_lines, s_cursor, sub_lock, running, last_content, t_pc, t_lines,
                   t_cursor, t_i, d_cb, shut, feeds, cb_notes, cb_K, cb_base, cb_multi,
                   cb_unsub, t_fresh, settled>>
    /\ shut_done' = TRUE
    /\ UNCHANGED NotBcast

\* ---- the polling thread, _broadcast_loop
\* time.sleep(self.update_interval) is over (or the thread has just started), and
\* `while self._running:` is tested.
LoopCheck ==
    /\ t_pc = "check"
    /\ t_pc' = IF running THEN "read" ELSE "dead"
    /\ UNCHANGED <<s_lines, s_cursor, subscribers, sub_lock, running, last_content,
                   t_lines, t_cursor, t_i, d_pc, d_cb, shut, feeds, cb_notes, cb_K,
                   cb_base, cb_multi, cb_unsub, t_fresh, settled>>
    /\ UNCHANGED shut_done
    /\ UNCHANGED NotBcast

\* A loop without its outer `except`, whose read error reaches the calling threads.
LoopReadSurfaces ==
    /\ t_pc = "read"
    /\ screen_lock = "free"
    /\ \E ok \in BOOLEAN :
         IF ok
           THEN /\ t_lines' = s_lines
                /\ t_cursor' = s_cursor
                /\ t_fresh' = TRUE
                /\ t_pc' = "compare"
                /\ UNCHANGED c_raised
           ELSE /\ t_pc' = "dead"
                /\ c_raised' = TRUE
                /\ UNCHANGED <<t_lines, t_cursor, t_fresh>>
    /\ UNCHANGED <<s_lines, s_cursor, subscribers, sub_lock, running, last_content,
                   t_i, d_pc, d_cb, shut, feeds, cb_notes, cb_K, cb_base, cb_multi,
                   cb_unsub, settled>>
    /\ UNCHANGED shut_done
    /\ UNCHANGED <<svars, pvars, xvars, zvars, vwvars, qvars, thvars, nvars, screen_lock, c_pc,
                   c_lines, c_x, c_y>>

\* `lines, cursor_x, cursor_y = self.get_screen_state()`: one critical section of
\* the screen lock.  When the read raises, `except Exception: break` ends the thread.
LoopRead ==
    /\ t_pc = "read"
    /\ screen_lock = "free"
    /\ \E ok \in BOOLEAN :
         IF ok
           THEN /\ t_lines' = s_lines
                /\ t_cursor' = s_cursor
                /\ t_fresh' = TRUE
                /\ t_pc' = "compare"
           ELSE /\ t_pc' = "dead"
                /\ UNCHANGED <<t_lines, t_cursor, t_fresh>>
    /\ UNCHANGED <<s_lines, s_cursor, subscribers, sub_lock, running, last_content,
                   t_i, d_pc, d_cb, shut, feeds, cb_notes, cb_K, cb_base, cb_multi,
                   cb_unsub, settled>>
    /\ UNCHANGED shut_done
    /\ UNCHANGED NotBcast

\* A loop that notifies on every pass, changed lines or not.
LoopCompareAlways ==
    /\ t_pc = "compare"
    /\ last_content' = t_lines
    /\ t_pc' = "lock"
    /\ UNCHANGED <<s_lines, s_cursor, subscribers, sub_lock, running, t_lines,
                   t_cursor, t_i, d_pc, d_cb, shut, feeds, cb_notes, cb_K, cb_base,
                   cb_multi, cb_unsub, t_fresh, settled>>
    /\ UNCHANGED shut_done
    /\ UNCHANGED NotBcast

\* `if lines != self._last_content: self._last_content = lines.copy()`
LoopCompare ==
    /\ t_pc = "compare"
    /\ IF t_lines # last_content
         THEN /\ last_content' = t_lines
              /\ t_pc' = "lock"
              /\ UNCHANGED <<settled, t_lines, t_cursor>>
         ELSE /\ t_pc' = "check"
              /\ t_lines' = <<>>
              /\ t_cursor' = <<0, 0>>
              /\ settled' = t_fresh
              /\ UNCHANGED last_content
    /\ UNCHANGED <<s_lines, s_cursor, subscribers, sub_lock, running, t_i, d_pc, d_cb,
                   shut, feeds, cb_notes, cb_K, cb_base, cb_multi, cb_unsub, t_fresh>>
    /\ UNCHANGED shut_done
    /\ UNCHANGED NotBcast

\* `with self._subscribers_lock:`
LoopLock ==
    /\ t_pc = "lock"
    /\ sub_lock = "free"
    /\ sub_lock' = "poll"
    /\ t_i' = 1
    /\ t_pc' = "notify"
    /\ UNCHANGED <<s_lines, s_cursor, subscribers, running, last_content, t_lines,
                   t_cursor, d_pc, d_cb, shut, feeds, cb_notes, cb_K, cb_base, cb_multi,
                   cb_unsub, t_fresh, settled>>
    /\ UNCHANGED shut_done
    /\ UNCHANGED NotBcast

\* A loop that reads the screen again for every callback.
LoopNotifyRereads ==
    /\ t_pc = "notify"
    /\ IF t_i <= Len(subscribers)
         THEN /\ t_pc' = "in_cb"
              /\ cb_notes' = IF subscribers[t_i] = "cb" THEN cb_notes + 1 ELSE cb_notes
              /\ t_lines' = s_lines
              /\ t_cursor' = s_cursor
              /\ UNCHANGED <<sub_lock, t_i, settled>>
         ELSE /\ sub_lock' = "free"
              /\ t_pc' = "check"
              /\ t_i' = 0
              /\ t_lines' = <<>>
              /\ t_cursor' = <<0, 0>>
              /\ settled' = t_fresh
              /\ UNCHANGED cb_notes
    /\ UNCHANGED <<s_lines, s_cursor, subscribers, running, last_content, d_pc, d_cb,
                   shut, feeds, cb_K, cb_base, cb_multi, cb_unsub, t_fresh>>
    /\ UNCHANGED shut_done
    /\ UNCHANGED NotBcast

\* `for callback in self._subscribers:` with the lock held all along: the next
\* callback is called; after the last one the lock is released and
\* `time.sleep(self.update_interval)` begins.  The locals of the pass are dead.
LoopNotify ==
    /\ t_pc = "notify"
    /\ IF t_i <= Len(subscribers)
         THEN /\ t_pc' = "in_cb"
              /\ cb_notes' = IF subscribers[t_i] = "cb" THEN cb_notes + 1 ELSE cb_notes
              /\ UNCHANGED <<sub_lock, t_i, t_lines, t_cursor, settled>>
         ELSE /\ sub_lock' = "free"
              /\ t_pc' = "check"
              /\ t_i' = 0
              /\ t_lines' = <<>>
              /\ t_cursor' = <<0, 0>>
              /\ settled' = t_fresh
              /\ UNCHANGED cb_notes
    /\ UNCHANGED <<s_lines, s_cursor, subscribers, running, last_content, d_pc, d_cb,
                   shut, feeds, cb_K, cb_base, cb_multi, cb_unsub, t_fresh>>
    /\ UNCHANGED shut_done
    /\ UNCHANGED NotBcast

\* A loop whose `try` around the callback is missing: the exception of a callback
\* reaches the outer `except Exception: break`.
CallbackReturnUncaught ==
    /\ t_pc = "in_cb"
    /\ IF subscribers[t_i] \in Raisers
         THEN /\ t_pc' = "dead"
              /\ sub_lock' = "free"
              /\ UNCHANGED t_i
         ELSE /\ t_pc' = "notify"
              /\ t_i' = t_i + 1
              /\ UNCHANGED sub_lock
    /\ UNCHANGED <<s_lines, s_cursor, subscribers, running, last_content, t_lines,
                   t_cursor, d_pc, d_cb, shut, feeds, cb_notes, cb_K, cb_base, cb_multi,
                   cb_unsub, t_fresh, settled>>
    /\ UNCHANGED shut_done
    /\ UNCHANGED NotBcast

\* `try: callback(lines, cursor_x, cursor_y) except Exception: pass`: the callback
\* returns, or raises and the exception is dropped; the loop goes to the next one.
\* A callback may take any time, and may never return.
CallbackReturn ==
    /\ t_pc = "in_cb"
    /\ IF subscribers[t_i] \in Raisers
         THEN /\ t_pc' = "notify"
              /\ t_i' = t_i + 1
         ELSE /\ t_pc' = "notify"
              /\ t_i' = t_i + 1
    /\ UNCHANGED <<s_lines, s_cursor, subscribers, sub_lock, running, last_content,
                   t_lines, t_cursor, d_pc, d_cb, shut, feeds, cb_notes, cb_K, cb_base,
                   cb_multi, cb_unsub, t_fresh, settled>>
    /\ UNCHANGED shut_done
    /\ UNCHANGED NotBcast

\* ---- a callback that calls back into the broadcaster (SpecReent)
\* The callback under way, on the polling thread, calls subscribe(callback) or
\* unsubscribe(callback): `with self._subscribers_lock:`.  _subscribers_lock is a
\* threading.Lock: a thread that holds it and acquires it again waits for itself.
CallbackReenters ==
    /\ t_pc = "in_cb"
    /\ subscribers[t_i] \notin Raisers
    /\ \E op \in {"subscribe", "unsubscribe"}, c \in Callbacks :
         IF sub_lock = "free"
           THEN /\ subscribers' =
                     IF op = "subscribe"
                       THEN IF Len(subscribers) < MaxSubs THEN Append(subscribers, c)
                                                          ELSE subscribers
                       ELSE IF InList(subscribers, c) THEN RemoveFirst(subscribers, c)
                                                      ELSE subscribers
                /\ UNCHANGED t_pc
           ELSE /\ t_pc' = "cb_wait"
                /\ UNCHANGED subscribers
    /\ UNCHANGED <<s_lines, s_cursor, sub_lock, running, last_content, t_lines, t_cursor,
                   t_i, d_pc, d_cb, shut, feeds, cb_notes, cb_K, cb_base, cb_multi,
                   cb_unsub, t_fresh, settled, shut_done>>
    /\ UNCHANGED NotBcast

\* The callback under way calls shutdown(): `self._running = False`, then
\* `self._thread.join(timeout=1.0)` on the thread itself, which raises RuntimeError
\* before the subscribers are cleared; the exception leaves the callback and the
\* loop drops it.
CallbackShutsDown ==
    /\ t_pc = "in_cb"
    /\ subscribers[t_i] \notin Raisers
    /\ running' = FALSE
    /\ shut' = TRUE
    /\ t_pc' = "notify"
    /\ t_i' = t_i + 1
    /\ UNCHANGED <<s_lines, s_cursor, subscribers, sub_lock, last_content, t_lines,
                   t_cursor, d_pc, d_cb, feeds, cb_notes, cb_K, cb_base, cb_multi,
                   cb_unsub, t_fresh, settled, shut_done>>
    /\ UNCHANGED NotBcast

\* ---- calls from several threads
Callers == {"ui", "aux"}

\* No thread is inside a call.
CallerInit ==
    /\ screen_lock = "free"
    /\ c_pc = [c \in Callers |-> "idle"]
    /\ c_lines = [c \in Callers |-> <<>>]
    /\ c_x = [c \in Callers |-> 0]
    /\ c_y = [c \in Callers |-> 0]
    /\ c_raised = FALSE

\* What the calls of these threads leave alone in the broadcaster.
CallerKeeps == <<s_lines, s_cursor, running, last_content, t_pc, t_lines, t_cursor,
                 t_i, d_pc, d_cb, shut, feeds, cb_notes, cb_K, cb_base, cb_multi,
                 cb_unsub, t_fresh, settled, shut_done>>

\* subscribe(other): `with self._subscribers_lock: self._subscribers.append(callback)`.
CallerSubscribe ==
    /\ \E c \in Callers : c_pc[c] = "idle"
    /\ sub_lock = "free"
    /\ Len(subscribers) < MaxSubs
    /\ subscribers' = Append(subscribers, "other")
    /\ UNCHANGED <<sub_lock, CallerKeeps, cvars>>
    /\ UNCHANGED NotCaller

\* unsubscribe(other): `with self._subscribers_lock:`
CallerUnsubscribeLock ==
    /\ \E c \in Callers :
         /\ c_pc[c] = "idle"
         /\ sub_lock = "free"
         /\ sub_lock' = c
         /\ c_pc' = [c_pc EXCEPT ![c] = "u_check"]
    /\ UNCHANGED <<subscribers, CallerKeeps, screen_lock, c_lines, c_x, c_y, c_raised>>
    /\ UNCHANGED NotCaller

\* `if callback in self._subscribers:`
CallerUnsubscribeCheck ==
    /\ \E c \in Callers :
         /\ c_pc[c] = "u_check"
         /\ IF InList(subscribers, "other")
              THEN /\ c_pc' = [c_pc EXCEPT ![c] = "u_remove"]
                   /\ UNCHANGED sub_lock
              ELSE /\ c_pc' = [c_pc EXCEPT ![c] = "idle"]
                   /\ sub_lock' = "free"
    /\ UNCHANGED <<subscribers, CallerKeeps, screen_lock, c_lines, c_x, c_y, c_raised>>
    /\ UNCHANGED NotCaller

\* `self._subscribers.remove(callback)`, which raises ValueError when the callback
\* is not in the list; the lock is released either way.
CallerUnsubscribeRemove ==
    /\ \E c \in Callers :
         /\ c_pc[c] = "u_remove"
         /\ c_pc' = [c_pc EXCEPT ![c] = "idle"]
    /\ IF InList(subscribers, "other")
         THEN /\ subscribers' = RemoveFirst(subscribers, "other")
              /\ UNCHANGED c_raised
         ELSE /\ c_raised' = TRUE
              /\ UNCHANGED subscribers
    /\ sub_lock' = "free"
    /\ UNCHANGED <<CallerKeeps, screen_lock, c_lines, c_x, c_y>>
    /\ UNCHANGED NotCaller

\* A get_screen_state that reads without the lock.
GetStateLockNone ==
    /\ \E c \in Callers :
         /\ c_pc[c] = "idle"
         /\ c_pc' = [c_pc EXCEPT ![c] = "gs_lines"]
    /\ UNCHANGED <<subscribers, sub_lock, CallerKeeps, screen_lock, c_lines, c_x, c_y,
                   c_raised>>
    /\ UNCHANGED NotCaller

\* get_screen_state(): `with self.session.screen_lock:`
GetStateLock ==
    /\ \E c \in Callers :
         /\ c_pc[c] = "idle"
         /\ screen_lock = "free"
         /\ screen_lock' = c
         /\ c_pc' = [c_pc EXCEPT ![c] = "gs_lines"]
    /\ UNCHANGED <<subscribers, sub_lock, CallerKeeps, c_lines, c_x, c_y, c_raised>>
    /\ UNCHANGED NotCaller

\* `lines = list(self.session.screen.display)`
GetStateLines ==
    /\ \E c \in Callers :
         /\ c_pc[c] = "gs_lines"
         /\ c_lines' = [c_lines EXCEPT ![c] = s_lines]
         /\ c_pc' = [c_pc EXCEPT ![c] = "gs_x"]
    /\ UNCHANGED <<subscribers, sub_lock, CallerKeeps, screen_lock, c_x, c_y, c_raised>>
    /\ UNCHANGED NotCaller

\* `cursor_x = self.session.screen.cursor.x`
GetStateCursorX ==
    /\ \E c \in Callers :
         /\ c_pc[c] = "gs_x"
         /\ c_x' = [c_x EXCEPT ![c] = s_cursor[1]]
         /\ c_pc' = [c_pc EXCEPT ![c] = "gs_y"]
    /\ UNCHANGED <<subscribers, sub_lock, CallerKeeps, screen_lock, c_lines, c_y,
                   c_raised>>
    /\ UNCHANGED NotCaller

\* `cursor_y = self.session.screen.cursor.y`
GetStateCursorY ==
    /\ \E c \in Callers :
         /\ c_pc[c] = "gs_y"
         /\ c_y' = [c_y EXCEPT ![c] = s_cursor[2]]
         /\ c_pc' = [c_pc EXCEPT ![c] = "gs_ret"]
    /\ UNCHANGED <<subscribers, sub_lock, CallerKeeps, screen_lock, c_lines, c_x,
                   c_raised>>
    /\ UNCHANGED NotCaller

\* A get_screen_state that records what it returns as the last broadcast.
GetStateReturnRecords ==
    /\ \E c \in Callers :
         /\ c_pc[c] = "gs_ret"
         /\ c_pc' = [c_pc EXCEPT ![c] = "idle"]
         /\ c_lines' = [c_lines EXCEPT ![c] = <<>>]
         /\ c_x' = [c_x EXCEPT ![c] = 0]
         /\ c_y' = [c_y EXCEPT ![c] = 0]
         /\ last_content' = c_lines[c]
    /\ screen_lock' = "free"
    /\ UNCHANGED <<subscribers, sub_lock, c_raised>>
    /\ UNCHANGED <<s_lines, s_cursor, running, t_pc, t_lines, t_cursor,
                   t_i, d_pc, d_cb, shut, feeds, cb_notes, cb_K, cb_base, cb_multi,
                   cb_unsub, t_fresh, settled, shut_done>>
    /\ UNCHANGED NotCaller

\* `return lines, cursor_x, cursor_y`: the tuple is built, the lock released; the
\* locals are dead.
GetStateReturn ==
    /\ \E c \in Callers :
         /\ c_pc[c] = "gs_ret"
         /\ c_pc' = [c_pc EXCEPT ![c] = "idle"]
         /\ c_lines' = [c_lines EXCEPT ![c] = <<>>]
         /\ c_x' = [c_x EXCEPT ![c] = 0]
         /\ c_y' = [c_y EXCEPT ![c] = 0]
    /\ screen_lock' = "free"
    /\ UNCHANGED <<subscribers, sub_lock, CallerKeeps, c_raised>>
    /\ UNCHANGED NotCaller

CallerNext ==
    \/ CallerSubscribe
    \/ CallerUnsubscribeLock
    \/ CallerUnsubscribeCheck
    \/ CallerUnsubscribeRemove
    \/ GetStateLock
    \/ GetStateLines
    \/ GetStateCursorX
    \/ GetStateCursorY
    \/ GetStateReturn

\* ---- two sessions and two broadcasters
Pair == {1, 2}

\* What the process of each session can draw: the two draw different text.
LinesOf(i) == IF i = 1 THEN { <<"a1">>, <<"b1">> } ELSE { <<"a2">>, <<"b2">> }

\* A broadcaster that reads the screen of session 2, whatever session it was given.
SessionOfShared(i) == 2

\* `self.session = pty_session`: broadcaster i was created on session i.
SessionOf(i) == i

\* Two PtySessions, ScreenBroadcaster(session).start() on each, one subscriber each.
TwoInit ==
    /\ x_screen = [i \in Pair |-> <<IF i = 1 THEN <<"a1">> ELSE <<"a2">>, <<0, 0>>>>]
    /\ x_feeds = [i \in Pair |-> 0]
    /\ x_last = [i \in Pair |-> <<>>]
    /\ x_pc = [i \in Pair |-> "read"]
    /\ x_snap = [i \in Pair |-> <<>>]
    /\ x_got = [i \in Pair |-> {}]
    /\ x_sent = [i \in Pair |-> <<>>]
    /\ x_hist = [i \in Pair |-> {x_screen[i]}]

\* The process of one session draws.
TwoFeed ==
    /\ \E i \in Pair : \E l \in LinesOf(i), c \in ScreenCursors :
         /\ x_feeds[i] < MaxFeeds
         /\ <<l, c>> # x_screen[i]
         /\ x_screen' = [x_screen EXCEPT ![i] = <<l, c>>]
         /\ x_hist' = [x_hist EXCEPT ![i] = @ \cup {<<l, c>>}]
         /\ x_feeds' = [x_feeds EXCEPT ![i] = @ + 1]
    /\ UNCHANGED <<x_last, x_pc, x_snap, x_got, x_sent>>
    /\ UNCHANGED NotTwo

\* `lines, cursor_x, cursor_y = self.get_screen_state()`, which reads
\* self.session.screen under self.session.screen_lock.
TwoRead ==
    /\ \E i \in Pair :
         /\ x_pc[i] = "read"
         /\ x_snap' = [x_snap EXCEPT ![i] = x_screen[SessionOf(i)]]
         /\ x_pc' = [x_pc EXCEPT ![i] = "compare"]
    /\ UNCHANGED <<x_screen, x_feeds, x_last, x_got, x_sent, x_hist>>
    /\ UNCHANGED NotTwo

\* A comparison by identity: the list just read is never the list that was kept.
TwoCompareIdentity ==
    /\ \E i \in Pair :
         /\ x_pc[i] = "compare"
         /\ x_last' = [x_last EXCEPT ![i] = x_snap[i][1]]
         /\ x_pc' = [x_pc EXCEPT ![i] = "notify"]
         /\ UNCHANGED x_snap
    /\ UNCHANGED <<x_screen, x_feeds, x_got, x_sent, x_hist>>
    /\ UNCHANGED NotTwo

\* A loop that notifies on changed lines and does not keep them.
TwoCompareKeepsLast ==
    /\ \E i \in Pair :
         /\ x_pc[i] = "compare"
         /\ IF x_snap[i][1] # x_last[i]
              THEN /\ x_pc' = [x_pc EXCEPT ![i] = "notify"]
                   /\ UNCHANGED <<x_snap, x_last>>
              ELSE /\ x_pc' = [x_pc EXCEPT ![i] = "read"]
                   /\ x_snap' = [x_snap EXCEPT ![i] = <<>>]
                   /\ UNCHANGED x_last
    /\ UNCHANGED <<x_screen, x_feeds, x_got, x_sent, x_hist>>
    /\ UNCHANGED NotTwo

\* A loop that takes note of changed lines and tells nobody.
TwoCompareForgets ==
    /\ \E i \in Pair :
         /\ x_pc[i] = "compare"
         /\ IF x_snap[i][1] # x_last[i]
              THEN /\ x_last' = [x_last EXCEPT ![i] = x_snap[i][1]]
                   /\ x_pc' = [x_pc EXCEPT ![i] = "read"]
                   /\ x_snap' = [x_snap EXCEPT ![i] = <<>>]
              ELSE /\ x_pc' = [x_pc EXCEPT ![i] = "read"]
                   /\ x_snap' = [x_snap EXCEPT ![i] = <<>>]
                   /\ UNCHANGED x_last
    /\ UNCHANGED <<x_screen, x_feeds, x_got, x_sent, x_hist>>
    /\ UNCHANGED NotTwo

\* `if lines != self._last_content: self._last_content = lines.copy()`
TwoCompare ==
    /\ \E i \in Pair :
         /\ x_pc[i] = "compare"
         /\ IF x_snap[i][1] # x_last[i]
              THEN /\ x_last' = [x_last EXCEPT ![i] = x_snap[i][1]]
                   /\ x_pc' = [x_pc EXCEPT ![i] = "notify"]
                   /\ UNCHANGED x_snap
              ELSE /\ x_pc' = [x_pc EXCEPT ![i] = "read"]
                   /\ x_snap' = [x_snap EXCEPT ![i] = <<>>]
                   /\ UNCHANGED x_last
    /\ UNCHANGED <<x_screen, x_feeds, x_got, x_sent, x_hist>>
    /\ UNCHANGED NotTwo

\* `callback(lines, cursor_x, cursor_y)` for the subscriber of this broadcaster, then
\* the sleep.
TwoNotify ==
    /\ \E i \in Pair :
         /\ x_pc[i] = "notify"
         /\ x_got' = [x_got EXCEPT ![i] = @ \cup {x_snap[i]}]
         /\ x_sent' = [x_sent EXCEPT ![i] = x_snap[i]]
         /\ x_pc' = [x_pc EXCEPT ![i] = "read"]
         /\ x_snap' = [x_snap EXCEPT ![i] = <<>>]
    /\ UNCHANGED <<x_screen, x_feeds, x_last, x_hist>>
    /\ UNCHANGED NotTwo

TwoNext ==
    \/ TwoFeed
    \/ TwoRead
    \/ TwoCompare
    \/ TwoNotify

\* ---- a PtySession and its broadcaster, from construction to cleanup
VizLines == { <<"a">>, <<"b">>, <<"c">> }

\* PtySession.__init__ has run up to `self._viz_server = None`.
VizInit ==
    /\ z_mode = "viz"
    /\ z_pc = "init"
    /\ z_server = "none"
    /\ z_attrs = FALSE
    /\ z_alive = FALSE
    /\ z_screen = <<"a">>
    /\ z_feeds = 0
    /\ z_running = FALSE
    /\ z_tpc = "none"
    /\ z_tlines = <<>>
    /\ z_last = <<>>
    /\ z_subs = <<>>
    /\ z_notes = 0
    /\ z_changed = FALSE
    /\ z_hist = {}
    /\ z_after = {}
    /\ z_raised = FALSE

\* The same, for every way of making the session.
VizInitAny ==
    /\ z_mode \in {"viz", "plain", "separate"}
    /\ z_pc = "init"
    /\ z_server = "none"
    /\ z_attrs = FALSE
    /\ z_alive = FALSE
    /\ z_screen = <<"a">>
    /\ z_feeds = 0
    /\ z_running = FALSE
    /\ z_tpc = "none"
    /\ z_tlines = <<>>
    /\ z_last = <<>>
    /\ z_subs = <<>>
    /\ z_notes = 0
    /\ z_changed = FALSE
    /\ z_hist = {}
    /\ z_after = {}
    /\ z_raised = FALSE

\* cleanup() of the session has ended (returned or raised).
VizCleanupEnded ==
    \/ z_pc \in {"done", "end"}
    \/ z_mode = "separate" /\ z_pc \in {"sh_flag", "sh_join", "sh_clear"}

\* `if enable_viz: self._viz_server = start_viz_broadcaster(self)`: the broadcaster
\* is made and start() sets _running and starts the polling thread.
VizConstructStart ==
    /\ z_pc = "init"
    /\ z_mode = "viz"
    /\ z_server' = "obj"
    /\ z_running' = TRUE
    /\ z_tpc' = "check"
    /\ z_pc' = "started"
    /\ UNCHANGED <<z_mode, z_attrs, z_alive, z_screen, z_feeds, z_tlines, z_last, z_subs,
                   z_notes, z_changed, z_hist, z_after, z_raised>>
    /\ UNCHANGED NotViz

\* `self._pty_process = PtyProcessDriver(...)`: the process is spawned and draws on
\* its screen.
VizConstructProcess ==
    /\ \/ z_pc = "init" /\ z_mode # "viz"
       \/ z_pc = "started"
    /\ z_alive' = TRUE
    /\ z_hist' = {z_screen}
    /\ z_pc' = "proc"
    /\ UNCHANGED <<z_mode, z_server, z_attrs, z_screen, z_feeds, z_running, z_tpc, z_tlines,
                   z_last, z_subs, z_notes, z_changed, z_after, z_raised>>
    /\ UNCHANGED NotViz

\* `self.screen = ...; self.stream = ...; self.screen_lock = ...; time.sleep(0.1)`
VizConstructAttrs ==
    /\ z_pc = "proc"
    /\ z_attrs' = TRUE
    /\ z_pc' = "ready"
    /\ UNCHANGED <<z_mode, z_server, z_alive, z_screen, z_feeds, z_running, z_tpc, z_tlines,
                   z_last, z_subs, z_notes, z_changed, z_hist, z_after, z_raised>>
    /\ UNCHANGED NotViz

\* The driver makes a broadcaster of its own: ScreenBroadcaster(session).start()
VizSepStart ==
    /\ z_pc = "ready"
    /\ z_mode = "separate"
    /\ ~z_running
    /\ z_tpc = "none"
    /\ z_running' = TRUE
    /\ z_tpc' = "check"
    /\ UNCHANGED <<z_mode, z_pc, z_server, z_attrs, z_alive, z_screen, z_feeds, z_tlines,
                   z_last, z_subs, z_notes, z_changed, z_hist, z_after, z_raised>>
    /\ UNCHANGED NotViz

\* broadcaster.subscribe(callback), after construction.
VizSubscribe ==
    /\ z_pc = "ready"
    /\ z_tpc # "none"
    /\ z_subs = <<>>
    /\ z_subs' = <<"cb">>
    /\ UNCHANGED <<z_mode, z_pc, z_server, z_attrs, z_alive, z_screen, z_feeds, z_running,
                   z_tpc, z_tlines, z_last, z_notes, z_changed, z_hist, z_after, z_raised>>
    /\ UNCHANGED NotViz

\* The process draws: the feeder changes the screen.
VizFeed ==
    /\ z_alive
    /\ z_feeds < MaxFeeds
    /\ \E l \in VizLines :
         /\ l # z_screen
         /\ z_screen' = l
         /\ z_hist' = IF VizCleanupEnded THEN z_hist ELSE z_hist \cup {l}
    /\ z_feeds' = z_feeds + 1
    /\ z_changed' = (z_changed \/ z_subs # <<>>)
    /\ UNCHANGED <<z_mode, z_pc, z_server, z_attrs, z_alive, z_running, z_tpc, z_tlines,
                   z_last, z_subs, z_notes, z_after, z_raised>>
    /\ UNCHANGED NotViz

\* cleanup(): `if self._is_cleaned_up: return; self._is_cleaned_up = True`
VizCleanupCall ==
    /\ z_pc = "ready"
    /\ z_pc' = "c_viz"
    /\ UNCHANGED <<z_mode, z_server, z_attrs, z_alive, z_screen, z_feeds, z_running, z_tpc,
                   z_tlines, z_last, z_subs, z_notes, z_changed, z_hist, z_after, z_raised>>
    /\ UNCHANGED NotViz

\* A cleanup() that leaves the broadcaster alone.
VizCleanupShutdownSkipped ==
    /\ z_pc = "c_viz"
    /\ z_pc' = "c_proc"
    /\ UNCHANGED <<z_mode, z_server, z_attrs, z_alive, z_screen, z_feeds, z_running, z_tpc,
                   z_tlines, z_last, z_subs, z_notes, z_changed, z_hist, z_after, z_raised>>
    /\ UNCHANGED NotViz

\* `if self._viz_server: try: self._viz_server.shutdown() except Exception: pass`
VizCleanupShutdown ==
    /\ z_pc = "c_viz"
    /\ z_pc' = IF z_server # "none" THEN "sh_flag" ELSE "c_proc"
    /\ UNCHANGED <<z_mode, z_server, z_attrs, z_alive, z_screen, z_feeds, z_running, z_tpc,
                   z_tlines, z_last, z_subs, z_notes, z_changed, z_hist, z_after, z_raised>>
    /\ UNCHANGED NotViz

\* shutdown(): `self._running = False`
VizShutdownFlag ==
    /\ z_pc = "sh_flag"
    /\ z_running' = FALSE
    /\ z_pc' = "sh_join"
    /\ UNCHANGED <<z_mode, z_server, z_attrs, z_alive, z_screen, z_feeds, z_tpc, z_tlines,
                   z_last, z_subs, z_notes, z_changed, z_hist, z_after, z_raised>>
    /\ UNCHANGED NotViz

\* shutdown(): `if self._thread and self._thread.is_alive(): self._thread.join(timeout=1.0)`
\* returns when the thread has ended, or after the second has passed.
VizShutdownJoin ==
    /\ z_pc = "sh_join"
    /\ z_pc' = "sh_clear"
    /\ UNCHANGED <<z_mode, z_server, z_attrs, z_alive, z_screen, z_feeds, z_running, z_tpc,
                   z_tlines, z_last, z_subs, z_notes, z_changed, z_hist, z_after, z_raised>>
    /\ UNCHANGED NotViz

\* shutdown(): `with self._subscribers_lock: self._subscribers.clear()`, which waits
\* for a notification pass to end; then shutdown() returns, into cleanup() or to
\* the driver.
VizShutdownClear ==
    /\ z_pc = "sh_clear"
    /\ z_tpc # "notify"
    /\ z_subs' = <<>>
    /\ z_pc' = IF z_mode = "viz" THEN "c_proc" ELSE "end"
    /\ UNCHANGED <<z_mode, z_server, z_attrs, z_alive, z_screen, z_feeds, z_running, z_tpc,
                   z_tlines, z_last, z_notes, z_changed, z_hist, z_after, z_raised>>
    /\ UNCHANGED NotViz

\* `if hasattr(self, '_pty_process'): self._pty_process.cleanup()`, with nothing
\* around it; cleanup() ends here.
VizProcessCleanup ==
    /\ z_pc = "c_proc"
    /\ \E ok \in BOOLEAN :
         /\ z_alive' \in (IF ok THEN {FALSE} ELSE {z_alive, FALSE})
         /\ z_raised' = ~ok
    /\ z_pc' = "done"
    /\ UNCHANGED <<z_mode, z_server, z_attrs, z_screen, z_feeds, z_running, z_tpc, z_tlines,
                   z_last, z_subs, z_notes, z_changed, z_hist, z_after>>
    /\ UNCHANGED NotViz

\* The driver shuts its own broadcaster down after the session's cleanup().
VizSepShutdown ==
    /\ z_pc = "done"
    /\ z_mode = "separate"
    /\ z_pc' = "sh_flag"
    /\ UNCHANGED <<z_mode, z_server, z_attrs, z_alive, z_screen, z_feeds, z_running, z_tpc,
                   z_tlines, z_last, z_subs, z_notes, z_changed, z_hist, z_after, z_raised>>
    /\ UNCHANGED NotViz

\* _broadcast_loop: `while self._running:`
VizLoopCheck ==
    /\ z_tpc = "check"
    /\ z_tpc' = IF z_running THEN "read" ELSE "dead"
    /\ UNCHANGED <<z_mode, z_pc, z_server, z_attrs, z_alive, z_screen, z_feeds, z_running,
                   z_tlines, z_last, z_subs, z_notes, z_changed, z_hist, z_after, z_raised>>
    /\ UNCHANGED NotViz

\* `try: lines, cursor_x, cursor_y = self.get_screen_state()`, which begins with
\* `with self.session.screen_lock:`; `except Exception: break` when the session has
\* no such attribute yet: the thread ends and _running stays as it is.
VizLoopRead ==
    /\ z_tpc = "read"
    /\ IF z_attrs
         THEN /\ z_tlines' = z_screen
              /\ z_tpc' = "compare"
         ELSE /\ z_tpc' = "dead"
              /\ UNCHANGED z_tlines
    /\ UNCHANGED <<z_mode, z_pc, z_server, z_attrs, z_alive, z_screen, z_feeds, z_running,
                   z_last, z_subs, z_notes, z_changed, z_hist, z_after, z_raised>>
    /\ UNCHANGED NotViz

\* `if lines != self._last_content: self._last_content = lines.copy()`; else the sleep.
VizLoopCompare ==
    /\ z_tpc = "compare"
    /\ IF z_tlines # z_last
         THEN /\ z_last' = z_tlines
              /\ z_tpc' = "notify"
              /\ UNCHANGED z_tlines
         ELSE /\ z_tpc' = "check"
              /\ z_tlines' = <<>>
              /\ UNCHANGED z_last
    /\ UNCHANGED <<z_mode, z_pc, z_server, z_attrs, z_alive, z_screen, z_feeds, z_running,
                   z_subs, z_notes, z_changed, z_hist, z_after, z_raised>>
    /\ UNCHANGED NotViz

\* `with self._subscribers_lock: for callback in self._subscribers: callback(...)`,
\* then the sleep.
VizLoopNotify ==
    /\ z_tpc = "notify"
    /\ IF z_subs # <<>>
         THEN /\ z_notes' = IF z_notes < MaxNotes THEN z_notes + 1 ELSE z_notes
              /\ z_after' = IF VizCleanupEnded THEN z_after \cup {z_tlines} ELSE z_after
         ELSE UNCHANGED <<z_notes, z_after>>
    /\ z_tpc' = "check"
    /\ z_tlines' = <<>>
    /\ UNCHANGED <<z_mode, z_pc, z_server, z_attrs, z_alive, z_screen, z_feeds, z_running,
                   z_last, z_subs, z_changed, z_hist, z_raised>>
    /\ UNCHANGED NotViz

VizNext ==
    \/ VizConstructStart
    \/ VizConstructProcess
    \/ VizConstructAttrs
    \/ VizSepStart
    \/ VizSubscribe
    \/ VizFeed
    \/ VizCleanupCall
    \/ VizCleanupShutdown
    \/ VizShutdownFlag
    \/ VizShutdownJoin
    \/ VizShutdownClear
    \/ VizProcessCleanup
    \/ VizSepShutdown
    \/ VizLoopCheck
    \/ VizLoopRead
    \/ VizLoopCompare
    \/ VizLoopNotify

\* ---- a TerminalViewer on a running broadcaster
ViewLines == { <<"a">>, <<"b">> }
ViewCb == "_on_screen_update_from_thread"

\* viewer = TerminalViewer(broadcaster), on a broadcaster that was started.
ViewInit ==
    /\ vw_pc = "new"
    /\ vw_display = FALSE
    /\ vw_subs = <<>>
    /\ vw_lock = "free"
    /\ vw_screen = <<"a">>
    /\ vw_feeds = 0
    /\ vw_last = <<>>
    /\ vw_tpc = "read"
    /\ vw_tlines = <<>>
    /\ vw_req = "none"
    /\ vw_lines = <<>>
    /\ vw_drawn = <<>>
    /\ vw_by = {}

\* The process draws.
ViewFeed ==
    /\ vw_feeds < MaxFeeds
    /\ \E l \in ViewLines :
         /\ l # vw_screen
         /\ vw_screen' = l
    /\ vw_feeds' = vw_feeds + 1
    /\ UNCHANGED <<vw_pc, vw_display, vw_subs, vw_lock, vw_last, vw_tpc, vw_tlines, vw_req, vw_lines, vw_drawn, vw_by>>
    /\ UNCHANGED NotView

\* on_mount: `self._terminal_display = self.query_one("#terminal", TerminalDisplay)`
ViewerMount ==
    /\ vw_pc = "new"
    /\ vw_display' = TRUE
    /\ vw_pc' = "m_sub"
    /\ UNCHANGED <<vw_subs, vw_lock, vw_screen, vw_feeds, vw_last, vw_tpc, vw_tlines, vw_req, vw_lines, vw_drawn, vw_by>>
    /\ UNCHANGED NotView

\* on_mount: `self.broadcaster.subscribe(self._on_screen_update_from_thread)`
ViewerMountSubscribe ==
    /\ vw_pc = "m_sub"
    /\ vw_lock = "free"
    /\ vw_subs' = Append(vw_subs, ViewCb)
    /\ vw_pc' = "m_read"
    /\ UNCHANGED <<vw_display, vw_lock, vw_screen, vw_feeds, vw_last, vw_tpc, vw_tlines, vw_req, vw_lines, vw_drawn, vw_by>>
    /\ UNCHANGED NotView

\* on_mount and action_refresh: `lines, cursor_x, cursor_y = self.broadcaster.get_screen_state()`
ViewerRead ==
    /\ vw_pc \in {"m_read", "r_read"}
    /\ vw_lines' = vw_screen
    /\ vw_pc' = IF vw_pc = "m_read" THEN "m_draw" ELSE "r_draw"
    /\ UNCHANGED <<vw_display, vw_subs, vw_lock, vw_screen, vw_feeds, vw_last, vw_tpc, vw_tlines, vw_req, vw_drawn, vw_by>>
    /\ UNCHANGED NotView

\* on_mount and action_refresh: `self._terminal_display.update_screen(lines, ...)`,
\* called directly on the UI thread; the handler returns to the event loop.
ViewerDraw ==
    /\ vw_pc \in {"m_draw", "r_draw"}
    /\ vw_drawn' = vw_lines
    /\ vw_by' = vw_by \cup {"ui"}
    /\ vw_lines' = <<>>
    /\ vw_pc' = "loop"
    /\ UNCHANGED <<vw_display, vw_subs, vw_lock, vw_screen, vw_feeds, vw_last, vw_tpc, vw_tlines, vw_req>>
    /\ UNCHANGED NotView

\* The key `r`: action_refresh begins.
ViewerRefresh ==
    /\ vw_pc = "loop"
    /\ vw_pc' = "r_read"
    /\ UNCHANGED <<vw_display, vw_subs, vw_lock, vw_screen, vw_feeds, vw_last, vw_tpc, vw_tlines, vw_req, vw_lines, vw_drawn, vw_by>>
    /\ UNCHANGED NotView

\* The event loop runs the call that call_from_thread handed over: update_screen on
\* the UI thread.
ViewerRunCall ==
    /\ vw_pc = "loop"
    /\ vw_req = "pending"
    /\ vw_drawn' = vw_tlines
    /\ vw_by' = vw_by \cup {"ui"}
    /\ vw_req' = "done"
    /\ UNCHANGED <<vw_pc, vw_display, vw_subs, vw_lock, vw_screen, vw_feeds, vw_last, vw_tpc, vw_tlines, vw_lines>>
    /\ UNCHANGED NotView

\* A viewer that passes the key it was quit with on to the process.
ViewerQuitForwards ==
    /\ vw_pc = "loop"
    /\ vw_pc' = "u_unsub"
    /\ written' = Append(written, "q")
    /\ UNCHANGED <<vw_display, vw_subs, vw_lock, vw_screen, vw_feeds, vw_last, vw_tpc,
                   vw_tlines, vw_req, vw_lines, vw_drawn, vw_by>>
    /\ UNCHANGED <<kind, viz_server, is_cleaned_up, alive, tmux_exists, writeCalls, pc,
                   caller, scope, bodyExc, propagated, nCleanups, nReturned, cleanupRaised,
                   termFault, sendLog>>
    /\ UNCHANGED <<pvars, bvars, cvars, xvars, zvars, qvars, thvars, nvars>>

\* The key `q`: action_quit calls self.exit(), and on_unmount begins.
ViewerQuit ==
    /\ vw_pc = "loop"
    /\ vw_pc' = "u_unsub"
    /\ UNCHANGED <<vw_display, vw_subs, vw_lock, vw_screen, vw_feeds, vw_last, vw_tpc, vw_tlines, vw_req, vw_lines, vw_drawn, vw_by>>
    /\ UNCHANGED NotView

\* An on_unmount that leaves the subscription in place.
ViewerUnmountKeeps ==
    /\ vw_pc = "u_unsub"
    /\ vw_pc' = "closed"
    /\ UNCHANGED <<vw_display, vw_subs, vw_lock, vw_screen, vw_feeds, vw_last, vw_tpc, vw_tlines, vw_req, vw_lines, vw_drawn, vw_by>>
    /\ UNCHANGED NotView

\* on_unmount: `self.broadcaster.unsubscribe(self._on_screen_update_from_thread)`,
\* which takes the subscribers' lock; the app has stopped when it returns.
ViewerUnmount ==
    /\ vw_pc = "u_unsub"
    /\ vw_lock = "free"
    /\ vw_subs' = IF InList(vw_subs, ViewCb) THEN RemoveFirst(vw_subs, ViewCb) ELSE vw_subs
    /\ vw_pc' = "closed"
    /\ UNCHANGED <<vw_display, vw_lock, vw_screen, vw_feeds, vw_last, vw_tpc, vw_tlines, vw_req, vw_lines, vw_drawn, vw_by>>
    /\ UNCHANGED NotView

\* _broadcast_loop: the read of the screen.
ViewPollRead ==
    /\ vw_tpc = "read"
    /\ vw_tlines' = vw_screen
    /\ vw_tpc' = "compare"
    /\ UNCHANGED <<vw_pc, vw_display, vw_subs, vw_lock, vw_screen, vw_feeds, vw_last, vw_req, vw_lines, vw_drawn, vw_by>>
    /\ UNCHANGED NotView

\* `if lines != self._last_content: self._last_content = lines.copy()`
ViewPollCompare ==
    /\ vw_tpc = "compare"
    /\ IF vw_tlines # vw_last
         THEN /\ vw_last' = vw_tlines
              /\ vw_tpc' = "lock"
              /\ UNCHANGED vw_tlines
         ELSE /\ vw_tpc' = "read"
              /\ vw_tlines' = <<>>
              /\ UNCHANGED vw_last
    /\ UNCHANGED <<vw_pc, vw_display, vw_subs, vw_lock, vw_screen, vw_feeds, vw_req, vw_lines, vw_drawn, vw_by>>
    /\ UNCHANGED NotView

\* `with self._subscribers_lock:`
ViewPollLock ==
    /\ vw_tpc = "lock"
    /\ vw_lock = "free"
    /\ vw_lock' = "bg"
    /\ vw_tpc' = "notify"
    /\ UNCHANGED <<vw_pc, vw_display, vw_subs, vw_screen, vw_feeds, vw_last, vw_tlines, vw_req, vw_lines, vw_drawn, vw_by>>
    /\ UNCHANGED NotView

\* A callback that draws by itself, on the thread that called it.
ViewCallbackDraws ==
    /\ vw_tpc = "notify"
    /\ IF vw_subs # <<>> /\ vw_display
         THEN /\ vw_drawn' = vw_tlines
              /\ vw_by' = vw_by \cup {"bg"}
         ELSE UNCHANGED <<vw_drawn, vw_by>>
    /\ vw_tpc' = "unlock"
    /\ UNCHANGED <<vw_pc, vw_display, vw_subs, vw_lock, vw_screen, vw_feeds, vw_last, vw_tlines, vw_req, vw_lines>>
    /\ UNCHANGED NotView

\* `for callback in self._subscribers: callback(...)`, that is
\* _on_screen_update_from_thread on the polling thread:
\* `if self._terminal_display: self.call_from_thread(update_screen, ...)`, which
\* hands the call to the app's event loop and waits for it; on an app that has
\* stopped it raises, and the loop drops the exception.
ViewCallback ==
    /\ vw_tpc = "notify"
    /\ IF vw_subs # <<>> /\ vw_display /\ vw_pc # "closed"
         THEN /\ vw_req' = "pending"
              /\ vw_tpc' = "wait"
         ELSE /\ vw_tpc' = "unlock"
              /\ UNCHANGED vw_req
    /\ UNCHANGED <<vw_pc, vw_display, vw_subs, vw_lock, vw_screen, vw_feeds, vw_last, vw_tlines, vw_lines, vw_drawn, vw_by>>
    /\ UNCHANGED NotView

\* call_from_thread returns: the UI thread has run the call.
ViewCallReturn ==
    /\ vw_tpc = "wait"
    /\ vw_req = "done"
    /\ vw_req' = "none"
    /\ vw_tpc' = "unlock"
    /\ UNCHANGED <<vw_pc, vw_display, vw_subs, vw_lock, vw_screen, vw_feeds, vw_last, vw_tlines, vw_lines, vw_drawn, vw_by>>
    /\ UNCHANGED NotView

\* The `with` block ends; `time.sleep(self.update_interval)`.
ViewPollUnlock ==
    /\ vw_tpc = "unlock"
    /\ vw_lock' = "free"
    /\ vw_tlines' = <<>>
    /\ vw_tpc' = "read"
    /\ UNCHANGED <<vw_pc, vw_display, vw_subs, vw_screen, vw_feeds, vw_last, vw_req, vw_lines, vw_drawn, vw_by>>
    /\ UNCHANGED NotView

ViewNext ==
    \/ ViewFeed
    \/ ViewerMount
    \/ ViewerMountSubscribe
    \/ ViewerRead
    \/ ViewerDraw
    \/ ViewerRefresh
    \/ ViewerRunCall
    \/ ViewerQuit
    \/ ViewerUnmount
    \/ ViewPollRead
    \/ ViewPollCompare
    \/ ViewPollLock
    \/ ViewCallback
    \/ ViewCallReturn
    \/ ViewPollUnlock

\* ---- cleanup() and the termination of the child
\* The threads that call cleanup(): the driver, and the one on which __del__ runs.
TermThreads == {"main", "gc"}

\* A live session of one of the three kinds.
TermInit ==
    /\ q_kind = "pty"
    /\ q_stubborn = FALSE
    /\ q_alive = TRUE
    /\ q_closed = FALSE
    /\ q_pc = [t \in TermThreads |-> "idle"]
    /\ q_calls = 0
    /\ q_asked = FALSE
    /\ q_fault = FALSE
    /\ q_raised = FALSE

TermInitAny ==
    /\ q_kind \in {"pty", "tmux", "nvim"}
    /\ q_stubborn \in BOOLEAN
    /\ q_alive = TRUE
    /\ q_closed = FALSE
    /\ q_pc = [t \in TermThreads |-> "idle"]
    /\ q_calls = 0
    /\ q_asked = FALSE
    /\ q_fault = FALSE
    /\ q_raised = FALSE

\* The child exits on its own.
TermChildExits ==
    /\ q_alive
    /\ q_alive' = FALSE
    /\ UNCHANGED <<q_kind, q_stubborn, q_closed, q_pc, q_calls, q_asked, q_fault, q_raised>>
    /\ UNCHANGED NotTerm

\* cleanup() is called: by the driver, by __exit__, or by __del__.
TermCall ==
    /\ q_calls < MaxCleanups
    /\ \E t \in TermThreads :
         /\ q_pc[t] = "idle"
         /\ q_pc' = [q_pc EXCEPT ![t] = IF q_kind = "nvim" THEN "n_quit" ELSE "check"]
    /\ q_calls' = q_calls + 1
    /\ UNCHANGED <<q_kind, q_stubborn, q_alive, q_closed, q_asked, q_fault, q_raised>>
    /\ UNCHANGED NotTerm

\* NeovimSession.cleanup: `try: if self.process and self.process.isalive():
\* send_raw(ESCAPE) ... self.ex("qa!", wait=False) except Exception: pass`, the
\* graceful request; then `super().cleanup()`.
NvimQuit ==
    /\ \E t \in TermThreads :
         /\ q_pc[t] = "n_quit"
         /\ q_pc' = [q_pc EXCEPT ![t] = "check"]
    /\ IF q_alive
         THEN \E ok \in BOOLEAN :
                 /\ q_asked' = (q_asked \/ ok)
                 /\ q_alive' = IF ok /\ ~q_stubborn THEN FALSE ELSE q_alive
                 /\ q_fault' = (q_fault \/ ~ok)
         ELSE UNCHANGED <<q_asked, q_alive, q_fault>>
    /\ UNCHANGED <<q_kind, q_stubborn, q_closed, q_calls, q_raised>>
    /\ UNCHANGED NotTerm

\* `if self._is_cleaned_up: return`
TermCheck ==
    /\ \E t \in TermThreads :
         /\ q_pc[t] = "check"
         /\ q_pc' = [q_pc EXCEPT ![t] = IF q_closed THEN "idle" ELSE "set"]
    /\ UNCHANGED <<q_kind, q_stubborn, q_alive, q_closed, q_calls, q_asked, q_fault, q_raised>>
    /\ UNCHANGED NotTerm

\* `self._is_cleaned_up = True`; a PtySession without a broadcaster goes on to its
\* process handle, a TmuxSession to tmux.
TermSetFlag ==
    /\ \E t \in TermThreads :
         /\ q_pc[t] = "set"
         /\ q_pc' = [q_pc EXCEPT ![t] = IF q_kind = "tmux" THEN "first" ELSE "force"]
    /\ q_closed' = TRUE
    /\ UNCHANGED <<q_kind, q_stubborn, q_alive, q_calls, q_asked, q_fault, q_raised>>
    /\ UNCHANGED NotTerm

\* TmuxSession.cleanup: `try: subprocess.run(["tmux", "kill-session", ...]) except
\* Exception: pass`, the graceful request: the attached client is told to exit.
TermKillSession ==
    /\ \E t \in TermThreads :
         /\ q_pc[t] = "first"
         /\ q_pc' = [q_pc EXCEPT ![t] = "force"]
    /\ \E ok \in BOOLEAN :
         /\ q_asked' = (q_asked \/ (ok /\ q_alive))
         /\ q_alive' = IF ok /\ ~q_stubborn THEN FALSE ELSE q_alive
         /\ q_fault' = (q_fault \/ ~ok)
    /\ UNCHANGED <<q_kind, q_stubborn, q_closed, q_calls, q_raised>>
    /\ UNCHANGED NotTerm

\* TmuxSession.cleanup: `try: if self.process.isalive():
\* self.process.terminate(force=True); self.process.close() except Exception: pass`.
\* PtySession.cleanup: `self._pty_process.cleanup()`, the handle's own escalation,
\* with nothing around it.  What fails is dropped by the first and leaves the second.
TermForce ==
    /\ \E t \in TermThreads :
         /\ q_pc[t] = "force"
         /\ q_pc' = [q_pc EXCEPT ![t] = "idle"]
    /\ \E ok \in BOOLEAN :
         /\ q_alive' \in (IF ok THEN {FALSE} ELSE {q_alive, FALSE})
         /\ q_fault' = (q_fault \/ ~ok)
         /\ q_raised' = (q_raised \/ (~ok /\ q_kind # "tmux"))
    /\ UNCHANGED <<q_kind, q_stubborn, q_closed, q_calls, q_asked>>
    /\ UNCHANGED NotTerm

TermNext ==
    \/ TermChildExits
    \/ TermCall
    \/ NvimQuit
    \/ TermCheck
    \/ TermSetFlag
    \/ TermKillSession
    \/ TermForce

\* ---- start(), shutdown() and the polling threads
ThreadIds == 1..MaxThreads

\* ScreenBroadcaster.__init__: `self._running = False`, `self._thread = None`.
ThreadsInit ==
    /\ th_running = FALSE
    /\ th_pc = [t \in ThreadIds |-> "none"]
    /\ th_thread = 0
    /\ th_lock = 0
    /\ th_dpc = "idle"
    /\ th_n = 0

\* start(): `if self._running: return`; else `self._running = True`, and a new
\* Thread is stored in `self._thread` and started.
ThStart ==
    /\ th_dpc = "idle"
    /\ IF th_running
         THEN UNCHANGED <<th_running, th_pc, th_thread, th_n>>
         ELSE /\ th_n < MaxThreads
              /\ th_running' = TRUE
              /\ th_n' = th_n + 1
              /\ th_thread' = th_n + 1
              /\ th_pc' = [th_pc EXCEPT ![th_n + 1] = "check"]
    /\ UNCHANGED <<th_lock, th_dpc>>
    /\ UNCHANGED NotThreads

\* shutdown(): `self._running = False`
ThShutdownFlag ==
    /\ th_dpc = "idle"
    /\ th_running' = FALSE
    /\ th_dpc' = "join"
    /\ UNCHANGED <<th_pc, th_thread, th_lock, th_n>>
    /\ UNCHANGED NotThreads

\* `if self._thread and self._thread.is_alive(): self._thread.join(timeout=1.0)`:
\* there is no live thread in _thread, or it ends within the second, or the second
\* is over; the join times out only on a thread that its callbacks keep in a pass.
ThShutdownJoin ==
    /\ th_dpc = "join"
    /\ IF th_thread = 0 THEN TRUE ELSE th_pc[th_thread] \in {"dead", "pass"}
    /\ th_dpc' = "clear"
    /\ UNCHANGED <<th_running, th_pc, th_thread, th_lock, th_n>>
    /\ UNCHANGED NotThreads

\* `with self._subscribers_lock: self._subscribers.clear()`
ThShutdownClear ==
    /\ th_dpc = "clear"
    /\ th_lock = 0
    /\ th_dpc' = "idle"
    /\ UNCHANGED <<th_running, th_pc, th_thread, th_lock, th_n>>
    /\ UNCHANGED NotThreads

\* _broadcast_loop: the sleep is over and `while self._running:` is tested.
ThLoopCheck ==
    /\ \E t \in ThreadIds :
         /\ th_pc[t] = "check"
         /\ th_pc' = [th_pc EXCEPT ![t] = IF th_running THEN "read" ELSE "dead"]
    /\ UNCHANGED <<th_running, th_thread, th_lock, th_dpc, th_n>>
    /\ UNCHANGED NotThreads

\* The read and the comparison: the read raised and the thread ends, or the lines
\* are those of the last broadcast and the thread sleeps, or they differ and the
\* thread enters `with self._subscribers_lock:` and calls the subscribers.
ThLoopRead ==
    /\ \E t \in ThreadIds :
         /\ th_pc[t] = "read"
         /\ \E out \in {"raised", "same", "changed"} :
              CASE out = "raised"  -> /\ th_pc' = [th_pc EXCEPT ![t] = "dead"]
                                      /\ UNCHANGED th_lock
                [] out = "same"    -> /\ th_pc' = [th_pc EXCEPT ![t] = "check"]
                                      /\ UNCHANGED th_lock
                [] out = "changed" -> /\ th_lock = 0
                                      /\ th_lock' = t
                                      /\ th_pc' = [th_pc EXCEPT ![t] = "pass"]
    /\ UNCHANGED <<th_running, th_thread, th_dpc, th_n>>
    /\ UNCHANGED NotThreads

\* The last callback has returned: the lock is released, the thread sleeps.
ThPassEnd ==
    /\ \E t \in ThreadIds :
         /\ th_pc[t] = "pass"
         /\ th_pc' = [th_pc EXCEPT ![t] = "check"]
    /\ th_lock' = 0
    /\ UNCHANGED <<th_running, th_thread, th_dpc, th_n>>
    /\ UNCHANGED NotThreads

ThreadsNext ==
    \/ ThStart
    \/ ThShutdownFlag
    \/ ThShutdownJoin
    \/ ThShutdownClear
    \/ ThLoopCheck
    \/ ThLoopRead
    \/ ThPassEnd

\* ---- a callback subscribed before or after start()
ReplayLines == { <<"a">>, <<"b">> }

\* ScreenBroadcaster.__init__ on a session whose screen shows its first state:
\* `self._subscribers = []`, `self._running = False`, `self._last_content = []`.
ReplayInit ==
    /\ n_screen = <<"a">>
    /\ n_feeds = 0
    /\ n_last = <<>>
    /\ n_running = FALSE
    /\ n_tpc = "none"
    /\ n_tlines = <<>>
    /\ n_subs = <<>>
    /\ n_notes = 0
    /\ n_first = <<>>
    /\ n_passed = FALSE
    /\ n_early = FALSE
    /\ n_eq = FALSE
    /\ n_quiet = FALSE
    /\ n_differed = FALSE

\* The process draws other lines.
NFeed ==
    /\ n_feeds < MaxFeeds
    /\ \E l \in ReplayLines :
         /\ l # n_screen
         /\ n_screen' = l
         /\ n_differed' = (n_differed \/ (n_subs # <<>> /\ l # n_last))
    /\ n_feeds' = n_feeds + 1
    /\ UNCHANGED <<n_last, n_running, n_tpc, n_tlines, n_subs, n_notes, n_first, n_passed,
                   n_early, n_eq, n_quiet>>
    /\ UNCHANGED NotReplay

\* A subscribe that calls the new subscriber at once with the last broadcast.
NSubscribeReplays ==
    /\ n_subs = <<>>
    /\ n_subs' = <<"cb">>
    /\ n_notes' = IF n_last # <<>> THEN 1 ELSE 0
    /\ n_first' = n_last
    /\ n_early' = (n_tpc = "none")
    /\ n_eq' = (n_screen = n_last)
    /\ n_quiet' = (n_screen = n_last /\ n_tpc # "notify")
    /\ n_differed' = FALSE
    /\ UNCHANGED <<n_screen, n_feeds, n_last, n_running, n_tpc, n_tlines, n_passed>>
    /\ UNCHANGED NotReplay

\* subscribe(callback): `with self._subscribers_lock: self._subscribers.append(callback)`;
\* nothing is sent to the new subscriber.
NSubscribe ==
    /\ n_subs = <<>>
    /\ n_subs' = <<"cb">>
    /\ n_notes' = 0
    /\ n_first' = <<>>
    /\ n_early' = (n_tpc = "none")
    /\ n_eq' = (n_screen = n_last)
    /\ n_quiet' = (n_screen = n_last /\ n_tpc # "notify")
    /\ n_differed' = FALSE
    /\ UNCHANGED <<n_screen, n_feeds, n_last, n_running, n_tpc, n_tlines, n_passed>>
    /\ UNCHANGED NotReplay

\* start(): `if self._running: return`, else the flag is set and the thread started.
NStart ==
    /\ IF n_running
         THEN UNCHANGED <<n_running, n_tpc>>
         ELSE /\ n_running' = TRUE
              /\ n_tpc' = "check"
    /\ UNCHANGED <<n_screen, n_feeds, n_last, n_tlines, n_subs, n_notes, n_first, n_passed,
                   n_early, n_eq, n_quiet, n_differed>>
    /\ UNCHANGED NotReplay

\* _broadcast_loop: `while self._running:`
NLoopCheck ==
    /\ n_tpc = "check"
    /\ n_tpc' = IF n_running THEN "read" ELSE "dead"
    /\ UNCHANGED <<n_screen, n_feeds, n_last, n_running, n_tlines, n_subs, n_notes,
                   n_first, n_passed, n_early, n_eq, n_quiet, n_differed>>
    /\ UNCHANGED NotReplay

\* `lines, cursor_x, cursor_y = self.get_screen_state()`; `except Exception: break`.
NLoopRead ==
    /\ n_tpc = "read"
    /\ \E ok \in BOOLEAN :
         IF ok THEN /\ n_tlines' = n_screen
                    /\ n_tpc' = "compare"
               ELSE /\ n_tpc' = "dead"
                    /\ UNCHANGED n_tlines
    /\ UNCHANGED <<n_screen, n_feeds, n_last, n_running, n_subs, n_notes, n_first,
                   n_passed, n_early, n_eq, n_quiet, n_differed>>
    /\ UNCHANGED NotReplay

\* `if lines != self._last_content: self._last_content = lines.copy()`; else the sleep.
NLoopCompare ==
    /\ n_tpc = "compare"
    /\ IF n_tlines # n_last
         THEN /\ n_last' = n_tlines
              /\ n_tpc' = "notify"
              /\ n_differed' = (n_differed \/ (n_subs # <<>> /\ n_screen # n_tlines))
              /\ UNCHANGED <<n_tlines, n_passed>>
         ELSE /\ n_tpc' = "check"
              /\ n_tlines' = <<>>
              /\ n_passed' = TRUE
              /\ UNCHANGED <<n_last, n_differed>>
    /\ UNCHANGED <<n_screen, n_feeds, n_running, n_subs, n_notes, n_first, n_early, n_eq,
                   n_quiet>>
    /\ UNCHANGED NotReplay

\* `with self._subscribers_lock: for callback in self._subscribers: callback(...)`,
\* then the sleep.
NLoopNotify ==
    /\ n_tpc = "notify"
    /\ IF n_subs # <<>>
         THEN /\ n_notes' = IF n_notes < MaxNotes THEN n_notes + 1 ELSE n_notes
              /\ n_first' = IF n_notes = 0 THEN n_tlines ELSE n_first
         ELSE UNCHANGED <<n_notes, n_first>>
    /\ n_tpc' = "check"
    /\ n_tlines' = <<>>
    /\ n_passed' = TRUE
    /\ UNCHANGED <<n_screen, n_feeds, n_last, n_running, n_subs, n_early, n_eq, n_quiet,
                   n_differed>>
    /\ UNCHANGED NotReplay

ReplayNext ==
    \/ NFeed
    \/ NSubscribe
    \/ NStart
    \/ NLoopCheck
    \/ NLoopRead
    \/ NLoopCompare
    \/ NLoopNotify

BcastNext ==
    \/ FeedScreen
    \/ SubscribeCall
    \/ Subscribe
    \/ UnsubscribeCall
    \/ Unsubscribe
    \/ Start
    \/ ShutdownCall
    \/ ShutdownJoin
    \/ ShutdownClear
    \/ LoopCheck
    \/ LoopRead
    \/ LoopCompare
    \/ LoopLock
    \/ LoopNotify
    \/ CallbackReturn

\* ======================================================= the specifications

\* The session a poll runs on (SpecPoll): a PtySession nobody else touches.
SessionQuiet ==
    /\ kind = "pty"
    /\ viz_server = "none"
    /\ is_cleaned_up = FALSE
    /\ alive = TRUE
    /\ tmux_exists = FALSE
    /\ written = <<>>
    /\ writeCalls = 0
    /\ pc = "idle"
    /\ caller = "call"
    /\ scope = "none"
    /\ bodyExc = FALSE
    /\ propagated = "none"
    /\ nCleanups = 0
    /\ nReturned = 0
    /\ cleanupRaised = FALSE
    /\ termFault = FALSE
    /\ sendLog = <<>>

Init == SessionInit /\ PollIdle /\ BcastInit /\ CallerInit /\ TwoInit /\ VizInit /\ ViewInit /\ TermInit /\ ThreadsInit /\ ReplayInit

Next == SessionNext

Spec == Init /\ [][Next]_vars

InitPoll == SessionQuiet /\ PollInit /\ BcastInit /\ CallerInit /\ TwoInit /\ VizInit /\ ViewInit /\ TermInit /\ ThreadsInit /\ ReplayInit

NextPoll == PollNext

SpecPoll == InitPoll /\ [][NextPoll]_vars

InitBcast == SessionQuiet /\ PollIdle /\ BcastInit /\ CallerInit /\ TwoInit /\ VizInit /\ ViewInit /\ TermInit /\ ThreadsInit /\ ReplayInit

NextBcast == BcastNext

SpecBcast == InitBcast /\ [][NextBcast]_vars

\* A started broadcaster, the feeder, and threads calling subscribe, unsubscribe
\* and get_screen_state side by side.
NextSnap ==
    \/ FeedScreen
    \/ Start
    \/ LoopCheck
    \/ LoopRead
    \/ LoopCompare
    \/ LoopLock
    \/ LoopNotify
    \/ CallbackReturn
    \/ CallerSubscribe
    \/ CallerUnsubscribeLock
    \/ CallerUnsubscribeCheck
    \/ CallerUnsubscribeRemove
    \/ GetStateLock
    \/ GetStateLines
    \/ GetStateCursorX
    \/ GetStateCursorY
    \/ GetStateReturn

SpecSnap == InitBcast /\ [][NextSnap]_vars

\* A PtySession with or without a broadcaster, from its constructor to its cleanup.
InitViz == SessionQuiet /\ PollIdle /\ BcastInit /\ CallerInit /\ TwoInit /\ VizInitAny /\ ViewInit /\ TermInit /\ ThreadsInit /\ ReplayInit

NextViz == VizNext

SpecViz == InitViz /\ [][NextViz]_vars

\* A viewer on the broadcaster of a session whose driver sends keys.
NextView == ViewNext \/ SendKeys \/ SendRaw

SpecView == InitBcast /\ [][NextView]_vars

\* One broadcaster whose callbacks may call subscribe, unsubscribe and shutdown.
NextReent == BcastNext \/ CallbackReenters \/ CallbackShutsDown

SpecReent == InitBcast /\ [][NextReent]_vars

\* One broadcaster under any sequence of start() and shutdown() calls.
NextThreads == ThreadsNext

SpecThreads == InitBcast /\ [][NextThreads]_vars

\* One broadcaster and one callback, subscribed before or after start().
NextReplay == ReplayNext

SpecReplay == InitBcast /\ [][NextReplay]_vars

\* cleanup() called from two threads on a session of any kind.
InitTerm ==
    /\ SessionQuiet /\ PollIdle /\ BcastInit /\ CallerInit /\ TwoInit /\ VizInit /\ ViewInit
    /\ TermInitAny
    /\ ThreadsInit
    /\ ReplayInit

NextTerm == TermNext

SpecTerm == InitTerm /\ [][NextTerm]_vars

\* Two sessions observed by two broadcasters.
NextTwo == TwoNext

SpecTwo == InitBcast /\ [][NextTwo]_vars

\* The same with polling threads that are scheduled fairly, each of them; the
\* feeders owe nothing.
FairTwo ==
    \A i \in Pair :
        WF_vars((TwoRead \/ TwoCompare \/ TwoNotify) /\ x_pc'[i] # x_pc[i])

SpecTwoLive == InitBcast /\ [][NextTwo]_vars /\ FairTwo

\* The broadcaster with a driver that may call start() again after shutdown().
NextRestart == BcastNext \/ StartAgain

SpecRestart == InitBcast /\ [][NextRestart]_vars

\* The broadcaster under the scheduling of OS threads: a thread that can take its
\* next step takes it, and a lock that stays free is acquired.  Nothing makes a
\* subscriber callback return, the driver make a call, or the process draw.
FairBcast ==
    /\ WF_vars(Subscribe)
    /\ WF_vars(Unsubscribe)
    /\ WF_vars(ShutdownJoin)
    /\ WF_vars(ShutdownClear)
    /\ WF_vars(LoopCheck)
    /\ WF_vars(LoopRead)
    /\ WF_vars(LoopCompare)
    /\ WF_vars(LoopLock)
    /\ WF_vars(LoopNotify)

SpecBcastLive == InitBcast /\ [][NextBcast]_vars /\ FairBcast

\* ================================================================ the claims

\* ---- C1.  After cleanup() has been called N >= 1 times, the child process is not
\* alive and none of the calls raised.  (The child is required dead only when no
\* collaborator call failed; a call that raised is counted in any case.)
C1_CleanupLeavesDead ==
    (pc = "idle" /\ nReturned >= 1) =>
        /\ ~cleanupRaised
        /\ ~termFault => ~alive

\* ---- C2.  A failure of terminating the child, of shutting down the attached
\* broadcaster or of releasing the terminal resource during cleanup() is caught:
\* every cleanup() call returns normally, with the closed flag set.
C2_CleanupSwallowsFailures ==
    (pc = "idle" /\ nReturned >= 1) => (is_cleaned_up /\ ~cleanupRaised)

\* ---- C6.  A send_keys or send_raw on a PtySession whose process handle reports the
\* child dead fails with "Process not running", calls the handle's write not once
\* (nothing written, nothing retried) and changes nothing of the session.
C6_SendOnDeadStep ==
    /\ kind = "pty"
    /\ ~alive
    /\ Len(sendLog') = Len(sendLog) + 1

C7_Expected(e) ==
    IF ~e.live THEN <<>>
    ELSE IF e.op = "send_raw" THEN e.arg
    ELSE IF e.literal THEN e.arg
    ELSE e.arg \o <<ENTER>>

RECURSIVE C7_Flat(_)
C7_Flat(log) ==
    IF log = <<>> THEN <<>>
    ELSE C7_Flat(SubSeq(log, 1, Len(log) - 1)) \o C7_Expected(log[Len(log)])

C7_WritesInCallOrder == written = C7_Flat(sendLog)

C7_Witness ==
    /\ Len(sendLog) = 2
    /\ sendLog[1].live /\ sendLog[1].op = "send_keys" /\ ~sendLog[1].literal
    /\ sendLog[2].live /\ sendLog[2].op = "send_keys" /\ sendLog[2].literal
    /\ Len(written) = Len(sendLog[1].arg) + 1 + Len(sendLog[2].arg)

\* ---- C8.  Leaving the with-block runs cleanup() on every exit path: once the block
\* is left the child is not alive (when no collaborator call failed), and an
\* exception raised by the body is the one that propagates.
C8_ScopedExit ==
    scope = "left" =>
        /\ ~termFault => ~alive
        /\ bodyExc => propagated = "body"

C4_VerifyNeverRaises == v_pc = "done" => v_result \in {"true", "false"}

ThreadAlive == t_pc \notin {"none", "dead"}

\* "cb" is subscribed, by one entry, to a running broadcaster whose thread polls.
CbSubscribedOnce ==
    /\ running
    /\ ThreadAlive
    /\ InList(subscribers, "cb")
    /\ ~cb_multi

C10_NoCallAfterUnsubscribe ==
    [][cb_unsub => cb_notes' = cb_notes]_vars


\* ---- C11.  When a callback that raises on every invocation has been called, the
\* pass goes on, lock held and thread alive, to the next entry of the list, and a
\* pass ends only behind the last entry: every other subscriber is called in every
\* pass, wherever the raiser stands in the list.
C11_RaiserIsolated ==
    [][/\ (t_pc = "in_cb" /\ subscribers[t_i] \in Raisers /\ t_pc' # "in_cb") =>
             /\ t_pc' = "notify"
             /\ t_i' = t_i + 1
             /\ sub_lock' = "poll"
             /\ subscribers' = subscribers
             /\ running' = running
       /\ (t_pc = "notify" /\ t_pc' # "notify") =>
             \/ t_i <= Len(subscribers) /\ t_pc' = "in_cb" /\ t_i' = t_i
             \/ t_i = Len(subscribers) + 1 /\ t_pc' = "check"]_vars

\* The raiser stands before "cb"; "cb" has been notified by two passes and the
\* thread polls on.
C11_Witness ==
    /\ subscribers = <<"other", "cb">>
    /\ "other" \in Raisers
    /\ cb_notes = 2
    /\ t_pc = "check"
    /\ running

\* ---- C12.  The subscriber lock is not held while a subscriber callback executes.
C12_LockFreeInCallback == t_pc = "in_cb" => sub_lock = "free"

\* ---- C14.  The step that returns from shutdown() leaves is_running false and the
\* subscriber list empty; once shutdown() has returned the broadcaster is not
\* running and its thread makes no pass, so no callback is invoked; and the steps
\* of a shutdown() on a stopped broadcaster (shut down before, or never started)
\* change neither the flag, the thread, the last content nor an empty list.
C14_ShutdownStep == d_pc' # d_pc /\ (d_pc \in {"join", "clear"} \/ d_pc' = "join")

C15_NeverRunsAgain ==
    shut_done => (~running /\ t_pc \notin {"read", "compare", "lock", "notify", "in_cb"})

\* ---- C16.  Every subscribe(), unsubscribe() and shutdown() call eventually
\* returns, also when a subscriber callback never returns.
C16_CallsReturn == (d_pc # "idle") ~> (d_pc = "idle")


\* ---- C13.  With threads calling subscribe, unsubscribe and get_screen_state side
\* by side with the feeder and the polling thread, no call raises, and what
\* get_screen_state has read is, up to its return, the buffer state of one single
\* moment: lines and cursor are those of the screen as it stands.
C13_NoTornSnapshot ==
    /\ ~c_raised
    /\ \A c \in Callers :
         /\ c_pc[c] \in {"gs_x", "gs_y", "gs_ret"} => c_lines[c] = s_lines
         /\ c_pc[c] \in {"gs_y", "gs_ret"} => c_x[c] = s_cursor[1]
         /\ c_pc[c] = "gs_ret" => c_y[c] = s_cursor[2]

\* One thread is about to return a snapshot of a screen that was drawn twice,
\* while the other is inside unsubscribe and the polling thread is in a pass.
C13_Witness ==
    /\ c_pc["ui"] = "gs_ret"
    /\ c_pc["aux"] = "u_remove"
    /\ feeds = 2
    /\ c_lines["ui"] = <<"b">>
    /\ c_x["ui"] = 1
    /\ t_pc = "lock"


\* ---- C17.  Every snapshot delivered to the subscriber of a broadcaster is a
\* buffer state of that broadcaster's own session: its lines are text of that
\* session, never of the other one.
\* A step that touches neither session i nor the thread of broadcaster i (a step of
\* the other session or the other broadcaster) leaves untouched what broadcaster i
\* holds and what its subscriber has received.
C17_OwnSnapshots ==
    \A i \in Pair :
        /\ x_got[i] \subseteq x_hist[i]
        /\ \A g \in x_got[i] : g[1] \in LinesOf(i)

C17_OtherStep ==
    \A i \in Pair :
        (x_screen'[i] = x_screen[i] /\ x_pc'[i] = x_pc[i])
            => /\ x_got'[i] = x_got[i]
               /\ x_last'[i] = x_last[i]
               /\ x_snap'[i] = x_snap[i]

C17_OwnSessionOnly == [](C17_OwnSnapshots) /\ [][C17_OtherStep]_vars

\* Both subscribers have received two snapshots while both sessions drew.
C17_Witness ==
    /\ Cardinality(x_got[1]) >= 2
    /\ Cardinality(x_got[2]) >= 2
    /\ x_feeds[1] >= 1
    /\ x_feeds[2] >= 1


\* ---- C18.  When a session is cleaned up while a broadcaster the driver made on
\* it is still running, the broadcaster delivers afterwards no content that the
\* screen did not show before cleanup() ended, and once the later shutdown() has
\* returned is_running is false.
C18_QuietAfterCleanup ==
    z_mode = "separate" =>
        /\ z_after \subseteq z_hist
        /\ (z_pc = "end" => ~z_running)

\* ---- C19.  cleanup() of a PtySession made with enable_viz=True shuts its
\* broadcaster down before it terminates the process: from the termination step
\* on, and so after cleanup() has ended, is_running is false and the subscriber
\* list is empty.  A PtySession made with enable_viz=False has no broadcaster.
C19_CleanupShutsDown ==
    /\ (z_mode = "viz" /\ z_pc \in {"c_proc", "done"}) => (~z_running /\ z_subs = <<>>)
    /\ z_mode # "viz" => z_server = "none"
    /\ z_mode = "plain" => (z_tpc = "none" /\ ~z_running)

\* cleanup() has ended on a session whose broadcaster had a subscriber and had
\* notified it.
C19_Witness ==
    /\ z_mode = "viz"
    /\ z_pc = "done"
    /\ z_notes >= 1
    /\ z_server = "obj"
    /\ ~z_running
    /\ z_subs = <<>>

\* ---- C20.  Once the constructor of a PtySession with enable_viz=True has
\* finished, the polling thread it started is still polling: it has not ended.
C20_PollingAfterConstruction ==
    (z_mode = "viz" /\ z_pc = "ready") => z_tpc # "dead"


\* ---- C21.  An error raised on the polling thread, by the read of the screen or by
\* a subscriber callback, never surfaces in a call made by another thread: the step
\* in which the error is raised changes nothing of the calling threads, and no call
\* of theirs raises, before or after.
C21_BackgroundError ==
    \/ t_pc = "read" /\ t_pc' = "dead"
    \/ t_pc = "in_cb" /\ subscribers[t_i] \in Raisers /\ t_pc' # "in_cb"

C22_InPass == {"compare", "lock", "notify", "in_cb"}

C22_PassStep ==
    /\ (t_pc = "read" /\ t_pc' = "compare")
          => (t_lines' = s_lines /\ t_cursor' = s_cursor)
    /\ (t_pc \in C22_InPass /\ t_pc' \in C22_InPass)
          => (t_lines' = t_lines /\ t_cursor' = t_cursor)

C22_OneSnapshotPerPass == [][C22_PassStep]_vars

\* The second of two subscribers is being called with the snapshot of the pass
\* after the screen has changed in lines and in cursor.
C22_Witness ==
    /\ t_pc = "in_cb"
    /\ t_i = 2
    /\ Len(subscribers) = 2
    /\ s_lines # t_lines
    /\ s_cursor # t_cursor


C28_CompareStep(i) == x_pc[i] = "compare" /\ x_pc'[i] # "compare"

C28_SnapshotDecides ==
    [][\A i \in Pair :
          C28_CompareStep(i) => ((x_pc'[i] = "notify") <=> (x_snap[i] # x_sent[i]))]_vars

\* C28 (amended).  A poll pass notifies if and only if the lines it read differ by
\* value from the lines last broadcast; on a difference the lines kept are
\* replaced by the new ones before the callbacks run, and otherwise they stay.
C28_LinesDecide ==
    /\ [][\A i \in Pair :
            C28_CompareStep(i) =>
                /\ (x_pc'[i] = "notify") <=> (x_snap[i][1] # x_last[i])
                /\ x_pc'[i] = "notify" => x_last'[i] = x_snap[i][1]
                /\ x_pc'[i] # "notify" => x_last'[i] = x_last[i]
                /\ x_got'[i] = x_got[i]]_vars
    /\ [](\A i \in Pair : x_pc[i] = "notify" => x_last[i] = x_snap[i][1])

\* A pass has found the lines changed since the last broadcast and has kept them;
\* its callbacks have not run yet.
C28_Witness ==
    /\ x_pc[1] = "notify"
    /\ x_sent[1] # <<>>
    /\ x_sent[1][1] # x_snap[1][1]
    /\ x_last[1] = x_snap[1][1]
    /\ x_snap[1] \notin x_got[1]

\* ---- C29.  The subscriber of a broadcaster never receives two notifications in a
\* row that carry the same lines, and a pass that read the lines last broadcast
\* ends without a notification.
C29_NotifyStep(i) == x_pc[i] = "notify" /\ x_pc'[i] # "notify"

C29_NoRepeat ==
    [][\A i \in Pair :
          /\ C29_NotifyStep(i) => (x_sent[i] = <<>> \/ x_sent[i][1] # x_snap[i][1])
          /\ (x_pc[i] = "compare" /\ x_snap[i][1] = x_last[i])
                => (x_pc'[i] # "notify" /\ x_sent'[i] = x_sent[i])]_vars

\* The subscriber has been notified twice, and a pass has just read the lines of
\* the second notification with a moved cursor.
C29_Witness ==
    /\ Cardinality(x_got[1]) = 2
    /\ x_pc[1] = "compare"
    /\ x_snap[1][1] = x_last[1]
    /\ x_snap[1] # x_sent[1]


\* ---- C24.  The viewer never writes to the process: a step of the viewer or of
\* the polling thread that serves it changes neither the bytes the process has
\* received nor the number of writes, and the bytes received are those of the
\* driver's send_keys / send_raw calls alone, as without a viewer.
C24_ViewerReadOnly ==
    /\ [][vwvars' # vwvars => (written' = written /\ writeCalls' = writeCalls)]_vars
    /\ [](written = C7_Flat(sendLog))

\* The viewer was mounted, drew a notification handed over by the polling thread,
\* and has quit, while the driver sent keys twice.
C24_Witness ==
    /\ vw_pc = "closed"
    /\ vw_by = {"ui"}
    /\ vw_drawn = <<"b">>
    /\ Len(sendLog) = 2
    /\ written # <<>>

\* ---- C25.  update_screen is executed on the UI thread only, never on the polling
\* thread: a notification reaches the display through call_from_thread.
C25_RenderOnUiThread == "bg" \notin vw_by

\* The UI thread has just drawn, inside its event loop, the lines of a
\* notification for which the polling thread is still waiting.
C25_Witness ==
    /\ vw_tpc = "wait"
    /\ vw_req = "done"
    /\ vw_pc = "loop"
    /\ vw_drawn = vw_tlines
    /\ vw_by = {"ui"}

\* ---- C26.  The viewer's callback is subscribed from on_mount on and until
\* on_unmount; once on_unmount has returned the subscriber list does not hold it,
\* nothing is handed to the UI thread any more and the display is not drawn again.
C26_UnmountUnsubscribes ==
    /\ [](vw_pc = "closed" => (~InList(vw_subs, ViewCb) /\ vw_req = "none"))
    /\ [](vw_pc \in {"m_read", "m_draw", "loop", "r_read", "r_draw", "u_unsub"}
             => InList(vw_subs, ViewCb))
    /\ [][vw_pc = "closed" => (vw_req' = vw_req /\ vw_drawn' = vw_drawn /\ vw_by' = vw_by)]_vars

\* The viewer has gone after a notification was drawn, and the polling thread is
\* in a later pass that found changed lines and has nobody to tell.
C26_Witness ==
    /\ vw_pc = "closed"
    /\ vw_subs = <<>>
    /\ vw_tpc = "notify"
    /\ vw_drawn # vw_tlines
    /\ vw_by = {"ui"}

\* ---- C27
\* No cleanup() call is in progress and at least one was made.
C27_Ended == q_calls >= 1 /\ \A t \in TermThreads : q_pc[t] = "idle"

\* When no call of a collaborator failed, the calls made leave the child not
\* alive, also a child that ignores the graceful request.
C27_EscalationWorks == (C27_Ended /\ ~q_fault) => (~q_raised /\ ~q_alive)

\* C27: cleanup() asks the child to exit and then forces it, so once the calls
\* made have ended, each of them returned, and the child is not alive, whether
\* or not it ignores the graceful request, unless the forcing itself failed.
C27_ReturnsWithChildDead == C27_Ended => (~q_raised /\ (~q_fault => ~q_alive))

\* A cleanup() call in progress always has a next step.
C27_Terminates == [](\A t \in TermThreads : q_pc[t] # "idle" => ENABLED <<TermNext>>_vars)

\* ---- C30
\* A cleanup() call finds the session closed and returns at once.
C30_ReturnsAtOnce ==
    \E t \in TermThreads : q_pc[t] = "check" /\ q_closed /\ q_pc'[t] = "idle"

\* C30: whenever a cleanup() call finds the session already closed and returns
\* at once, the child is not alive, also with calls from several threads and
\* after a first call that failed part-way.
C30_ClosedMeansDead == [][C30_ReturnsAtOnce => ~q_alive]_vars


\* ---- C31
\* Some cleanup() call has returned: at most one call gets past the closed flag,
\* so of two calls that ended one returned.
C31_CleanupReturned == nReturned >= 2 \/ (nReturned >= 1 /\ ~cleanupRaised)

\* The release of a PtySession has been carried out: the flag is set and the
\* driver is past the broadcaster's shutdown and the handle's cleanup.
C31_Released == is_cleaned_up /\ pc \in {"idle", "c_check"}

\* The closed flag stays set, and the release is not carried out a second time.
C31_NoDoubleRelease ==
    [][/\ is_cleaned_up => is_cleaned_up'
       /\ C31_Released => pc' \notin {"c_set", "c_first", "c_term"}
       /\ viz_server = "shutdown" => viz_server' = "shutdown"]_vars

\* C31: in any order of cleanup(), scoped exit, send_keys and send_raw calls on a
\* PtySession the closed flag never goes back to unset, the broadcaster's
\* shutdown and the termination of the process are carried out at most once,
\* and no write reaches the process once a cleanup() call has returned.
C31_NoDoubleReleaseNoUseAfterClose ==
    [][kind = "pty" =>
         /\ is_cleaned_up => is_cleaned_up'
         /\ C31_Released => pc' \notin {"c_set", "c_first", "c_term"}
         /\ viz_server = "shutdown" => viz_server' = "shutdown"
         /\ C31_CleanupReturned => written' = written]_vars


\* ---- C32
\* C32: a callback that calls subscribe, unsubscribe or shutdown on its own
\* broadcaster while it is notified does not deadlock: the polling thread never
\* waits for the subscriber lock it holds itself.
C32_ReentrantCallbackSafe == ~(t_pc = "cb_wait" /\ sub_lock = "poll")


\* ---- C33
\* A step of some thread inside get_screen_state().
C33_InGetState == {"gs_lines", "gs_x", "gs_y", "gs_ret"}

C33_GetStateStep ==
    \E c \in Callers :
        /\ c_pc'[c] # c_pc[c]
        /\ (c_pc[c] \in C33_InGetState \/ c_pc'[c] \in C33_InGetState)

\* The call of some thread returns.
C33_GetStateReturns ==
    \E c \in Callers :
        /\ c_pc[c] = "gs_ret" /\ c_pc'[c] = "idle"
        /\ <<c_lines[c], c_x[c], c_y[c]>> # <<s_lines, s_cursor[1], s_cursor[2]>>

\* C33: get_screen_state() returns the current lines and cursor, and no step of
\* it changes the last broadcast, the subscriber list or the running flag, calls
\* a callback or moves the polling thread: the next pass compares and notifies
\* as it would have without the call.
C33_ReadOnly ==
    [][/\ ~C33_GetStateReturns
       /\ C33_GetStateStep =>
            /\ last_content' = last_content
            /\ subscribers' = subscribers
            /\ running' = running
            /\ cb_notes' = cb_notes
            /\ <<t_pc, t_lines, t_cursor, t_i>>' = <<t_pc, t_lines, t_cursor, t_i>>
            /\ <<s_lines, s_cursor>>' = <<s_lines, s_cursor>>]_vars

\* A call is about to return lines that differ from the last broadcast, while the
\* polling thread runs and has a subscriber to notify.
C33_Witness ==
    /\ running
    /\ t_pc = "check"
    /\ subscribers # <<>>
    /\ \E c \in Callers : c_pc[c] = "gs_ret" /\ c_lines[c] # last_content


\* ---- C34
\* The driver's subscribe(d_cb) / unsubscribe(d_cb) takes effect.
C34_SubscribeStep == d_pc = "sub" /\ d_pc' = "idle"
C34_UnsubscribeStep == d_pc = "unsub" /\ d_pc' = "idle"

\* subscribe appends one entry at the end; unsubscribe of a callback that is not
\* in the list changes nothing, and otherwise takes out its first entry.
C34_AppendsOneRemovesFirst ==
    [][/\ C34_SubscribeStep => subscribers' = Append(subscribers, d_cb)
       /\ C34_UnsubscribeStep =>
            subscribers' = IF InList(subscribers, d_cb)
                             THEN RemoveFirst(subscribers, d_cb) ELSE subscribers]_vars

\* C34: subscribe(callback) appends exactly one entry at the end of the list;
\* unsubscribe(callback) of a callback that is not in the list leaves the list
\* as it is, and after an unsubscribe(callback) the callback is not in the list,
\* however often it was subscribed.
C34_AppendsOneRemovesAll ==
    [][/\ C34_SubscribeStep => subscribers' = Append(subscribers, d_cb)
       /\ C34_UnsubscribeStep =>
            /\ ~InList(subscribers, d_cb) => subscribers' = subscribers
            /\ ~InList(subscribers', d_cb)]_vars


\* ---- C35
\* The polling threads that exist and have not ended.
C35_Live == { t \in ThreadIds : th_pc[t] \notin {"none", "dead"} }

\* The threads that have found _running set and are reading or notifying.
C35_Polling == { t \in ThreadIds : th_pc[t] \in {"read", "pass"} }

\* At most one thread that has not ended.
C35_OneLiveThread == Cardinality(C35_Live) <= 1

\* C35: under any sequence and timing of start() and shutdown() calls a
\* broadcaster has at most one polling thread: never two threads that poll and
\* notify side by side, also when a start() follows a shutdown() whose join
\* timed out.
C35_OnePollingThread == Cardinality(C35_Polling) <= 1


\* ---- C36
\* C36: whenever is_running is true the polling thread is alive and will make
\* further passes; is_running does not stay true once the loop has ended on a
\* failed read of the screen.
C36_RunningMeansPolling == running => t_pc \notin {"none", "dead"}


\* ---- C37
\* C37: whenever wait_for_text raises the timeout error after a poll that read
\* the screen, the content in the message does not contain the text, and it is
\* the content the poll observed last, also when the screen changed after the
\* poll's last read.
C37_MessageMatchesVerdict ==
    (mode = "wait" /\ w_pc = "done" /\ w_outcome = "timeout" /\ v_reads >= 1) =>
        /\ ~IsSubstring(v_text, w_screen)
        /\ w_screen = v_content


\* ---- C38
\* What holds of a poll at every moment: the timeout is the argument, or the
\* session's default exactly when the argument is None; true is returned only
\* after a read that contained the text, false only when no read did; a read
\* that contains the text is the last one; and each read but the first follows
\* a sleep that began before the timeout was over.
C38_Sound ==
    /\ v_timeout = (IF v_arg = NoneT THEN timeout ELSE v_arg)
    /\ v_result = "true" => (v_sawText /\ IsSubstring(v_text, v_content))
    /\ v_result = "false" => ~v_sawText
    /\ v_sawText => (v_pc = "done" /\ v_result = "true")
    /\ v_reads >= 1 => (v_reads - 1) * PollInterval < v_timeout

\* The loop test made once the clock has passed the timeout ends the poll.
C38_LastCheck ==
    (v_pc = "check" /\ clock - v_start >= v_timeout /\ v_pc' # v_pc) =>
        (v_pc' = "done" /\ v_result' = "false" /\ v_reads' = v_reads)

\* C38: verify_text_appears returns true only if one of its reads contained the
\* text and false only if none did, stops at the first read that contains the
\* text, makes finitely many reads and none once the clock has passed the
\* timeout, and uses the session's default timeout exactly when timeout is None.
C38_SoundPoll == [](C38_Sound) /\ [][C38_LastCheck]_vars

\* With the default timeout, the second read of a poll finds the text.
C38_Witness ==
    /\ v_arg = NoneT
    /\ v_pc = "done"
    /\ v_result = "true"
    /\ v_reads >= 2


\* ---- C39
\* The UI thread is inside on_unmount and waits for the subscriber lock.
C39_UnmountWaits == vw_pc = "u_unsub" /\ vw_lock = "bg"

\* The polling thread holds the lock and waits, inside call_from_thread, for the
\* UI thread to run the call it handed over.
C39_DeliveryWaits == vw_tpc = "wait" /\ vw_req = "pending" /\ vw_lock = "bg"

\* C39: the viewer and the broadcaster cannot deadlock: an unmount that comes
\* while the polling thread delivers a notification to the viewer never leaves
\* each of the two threads waiting for the other.
C39_NoDeadlock == ~(C39_UnmountWaits /\ C39_DeliveryWaits)


\* ---- C40
\* A callback subscribed before start() has been notified once the thread has
\* finished a pass, and with the initial screen when the screen never changed.
C40_EarlySubscriber ==
    (n_subs # <<>> /\ n_early /\ n_passed) =>
        /\ n_notes >= 1
        /\ n_feeds = 0 => n_first = <<"a">>

\* C40 as stated: a callback subscribed while the screen's lines are those of
\* the last broadcast receives nothing until the lines differ from the last
\* broadcast; a callback subscribed before start() is notified by the first pass
\* with the initial screen, even if the screen never changes.
C40_NoReplayAsStated ==
    /\ (n_subs # <<>> /\ n_eq /\ ~n_differed) => n_notes = 0
    /\ C40_EarlySubscriber

\* C40, amended: the same, for a callback subscribed while no pass is under way
\* that has recorded its lines as the last broadcast and not yet called the
\* subscribers; such a pass notifies the new subscriber too.
C40_NoReplay ==
    /\ (n_subs # <<>> /\ n_quiet /\ ~n_differed) => n_notes = 0
    /\ C40_EarlySubscriber

\* A callback subscribed to a running broadcaster whose last broadcast was the
\* screen's lines got its first notification after the lines had changed.
C40_Witness ==
    /\ n_subs # <<>>
    /\ n_quiet
    /\ ~n_early
    /\ n_differed
    /\ n_notes = 1
    /\ n_first = <<"b">>

====
